---- MODULE Spec2Model ----
(***************************************************************************)
(* lazy-appwrite: the schema synchronisation engine.                       *)
(*                                                                         *)
(* LazyTable.prepare (the concurrency guard over the two static maps),     *)
(* LazySync.syncTable (the orchestrator) and the four managers it drives   *)
(* (DatabaseManager, TableManager, ColumnManager, IndexManager), over a    *)
(* remote backend that answers one call at a time.  The runtime is         *)
(* cooperative: a task runs until its next await, so one action is the     *)
(* code between two suspension points; each remote call is one await.      *)
(***************************************************************************)
EXTENDS Integers, Sequences, FiniteSets, TLC

\* ------------------------------------------------------------------ bounds
NCallers == 3       \* concurrent operations (each invokes prepare once)
PassCallers == 2    \* the operations of the runs that follow one table through all four stages
MaxFaults == 1      \* error answers and foreign drops the environment may inject
CountCap == 3       \* the call counters saturate here
RetryBudget == 3    \* withRetry is run alone with maxRetries in 0..RetryBudget

\* ------------------------------------------------------- program constants
DefaultRetries == 3 \* withRetry(operation, retries = 3, ...)
maxAttempts == 30   \* waitForColumn: const maxAttempts = 30
DefaultDelay == 500 \* withRetry(operation, retries, delay = 500)

Callers == 1..NCallers
NoOne == 0
DatabaseId == "db"
Tables == {"t1", "t2", "t3", "t4", "t5", "t6"}
GuardTables == {"t1", "t2"}     \* the tables of the concurrent runs (Spec)
PassTables == {"t3"}            \* the table of the four-stage runs (SpecPass)
IdxTables == {"t4"}             \* the table of the index runs (SpecIdx)
ColTables == {"t3", "t5", "t6"} \* the tables of the column runs (SpecCols)
AllCols == {"a", "b"}
AllIdx == {"i1", "i2"}
FaultCodes == {0, 400, 429, 503}    \* 0: an error that carries no code

\* the stages of syncTable, in the order of the source
StDatabase == 1
StTable == 2
StColumns == 3
StIndexes == 4

VARIABLES
    verifiedTables,     \* LazyTable.verifiedTables  (static Set<string>)
    pendingSyncs,       \* LazyTable.pendingSyncs    (static Map<string, Promise>): key -> the leader whose promise it holds
    promise,            \* the state of the syncPromise each caller created
    perr,               \* the error a rejected promise carries
    pc,                 \* where each caller is inside prepare
    key,                \* the table each caller operates on
    awaiting,           \* the promise (by leader) a follower awaits / last awaited
    retried,            \* how many times the caller re-entered prepare
    result,             \* what prepare gave the caller
    loc,                \* the locals of the caller's syncTable pass
    isConnectionVerified, \* DatabaseManager.isConnectionVerified (static)
    verifiedDatabases,  \* DatabaseManager.verifiedDatabases
    rDb,                \* remote: the database exists
    rTable,             \* remote: the tables
    rCols,              \* remote: the columns of each table
    rIdx,               \* remote: the indexes of each table
    faults,             \* disturbances injected so far
    scenario,           \* the remote state the run started from
    indexColumns,       \* the columns array of each declared index (schema.indexes[j].columns), as it is now
    shortCut,           \* history: the caller found its key verified on entry
    rowCall,            \* whether the caller's operation has issued its row call
    led,                \* history: syncTable executions each caller led
    okRuns,             \* history: syncTable executions per table that ended without error
    failRuns,           \* history: syncTable executions per table that ended in an error
    nCreateTable,       \* history: createTable calls answered, per table
    nCreateCol,         \* history: create<Kind>Column calls answered, per table and column
    wr,                 \* one run of withRetry on its own
    wc                  \* one run of waitForColumn on its own

guardVars == <<verifiedTables, pendingSyncs, promise, perr, pc, key, awaiting,
               retried, result, shortCut, rowCall, led, okRuns, failRuns>>
dbmVars == <<isConnectionVerified, verifiedDatabases>>
remoteVars == <<rDb, rTable, rCols, rIdx>>
countVars == <<nCreateTable, nCreateCol>>
unitVars == <<wr, wc>>
vars == <<guardVars, loc, dbmVars, remoteVars, faults, scenario, indexColumns, countVars, unitVars>>

\* ------------------------------------------------------------ declarations
\* permissions are role ids: 1 = "role:a", 2 = "role:b", 3 = "role:c"
Schema(t) ==
    CASE t = "t1" ->
         [ name |-> "T1",
           permissions |-> [def |-> TRUE, val |-> <<2, 1>>],
           rowSecurity |-> "true",
           enabled |-> "undef",
           columns |-> << [key |-> "a", type |-> "string", array |-> FALSE,
                           size |-> 100, elements |-> <<>>],
                          [key |-> "b", type |-> "enum", array |-> FALSE,
                           size |-> 0, elements |-> <<"x", "y">>] >>,
           indexes |-> << >> ]
      [] t = "t2" ->
         [ name |-> "T2",
           permissions |-> [def |-> FALSE, val |-> <<>>],
           rowSecurity |-> "undef",
           enabled |-> "undef",
           columns |-> << >>,
           indexes |-> << >> ]
      [] t = "t4" ->
         [ name |-> "T4",
           permissions |-> [def |-> TRUE, val |-> <<2, 1>>],
           rowSecurity |-> "true",
           enabled |-> "undef",
           columns |-> << [key |-> "a", type |-> "string", array |-> FALSE,
                           size |-> 100, elements |-> <<>>],
                          [key |-> "b", type |-> "enum", array |-> FALSE,
                           size |-> 0, elements |-> <<"x", "y">>] >>,
           indexes |-> << [key |-> "i1", type |-> "key", columns |-> <<"b", "a">>],
                          [key |-> "i2", type |-> "key", columns |-> <<"b">>] >> ]
      [] t = "t5" ->
         [ name |-> "T5",
           permissions |-> [def |-> TRUE, val |-> <<1>>],
           rowSecurity |-> "true",
           enabled |-> "true",
           columns |-> << [key |-> "a", type |-> "relationship", array |-> FALSE,
                           size |-> 0, elements |-> <<>>],
                          [key |-> "b", type |-> "string", array |-> FALSE,
                           size |-> 50, elements |-> <<>>] >>,
           indexes |-> << >> ]
      [] t = "t6" ->
         [ name |-> "T6",
           permissions |-> [def |-> FALSE, val |-> <<>>],
           rowSecurity |-> "undef",
           enabled |-> "undef",
           columns |-> << >>,
           indexes |-> << >> ]
      [] OTHER ->
         [ name |-> "T3",
           permissions |-> [def |-> TRUE, val |-> <<2, 1>>],
           rowSecurity |-> "true",
           enabled |-> "false",
           columns |-> << [key |-> "a", type |-> "string", array |-> FALSE,
                           size |-> 100, elements |-> <<>>],
                          [key |-> "b", type |-> "enum", array |-> FALSE,
                           size |-> 0, elements |-> <<"x", "y">>] >>,
           indexes |-> << [key |-> "i1", type |-> "key", columns |-> <<"a">>] >> ]

\* const key = `${this.databaseId}:${this.schema.id}`
KeyOf(t) == <<DatabaseId, t>>

NoTable == [present |-> FALSE, permissions |-> <<>>, rowSecurity |-> FALSE, enabled |-> FALSE]
NoCol == [present |-> FALSE, type |-> "", array |-> FALSE, size |-> 0,
          elements |-> <<>>, status |-> ""]
NoIdx == [present |-> FALSE, type |-> "", columns |-> <<>>, status |-> ""]

NoErr == [type |-> "none", stage |-> 0, by |-> NoOne, cause |-> "none"]

\* nothing read yet from a column
NoRead == [status |-> "", n |-> 0]

\* at .. polls are the locals of the pass; calls and got are the record of the
\* running stage: the calls it has issued and the code getTable gave; the rest is
\* the record of the pass:
\* trace, done, failed, thrown: the stages that issued calls, returned, threw, and what was thrown;
\* seen: what the reads of the running wait gave; waitFailed: the indexes whose wait
\* met a failed column, an error or the end of its budget; ix: how far each index got;
\* idxs: what listIndexes gave; del: what became of the deleteIndex call for each
\* index; asked: the indexes a createIndex call was issued for; made: what became
\* of that call once withRetry was through with it; srt: the indexes whose
\* declared columns array the drift check of this pass has sorted; lost: the
\* objects ("tbl", a column key, an index key) whose creation the backend
\* performed while the caller got an error
NoLoc == [at |-> "none", retries |-> 0, i |-> 0,
          cols |-> [k \in AllCols |-> NoCol],
          idxs |-> [k \in AllIdx |-> NoIdx],
          polls |-> [k \in AllCols |-> -1],
          seen |-> [k \in AllCols |-> NoRead],
          calls |-> {}, got |-> 0,
          waitFailed |-> {}, ix |-> [j \in AllIdx |-> "none"],
          del |-> [j \in AllIdx |-> "none"], asked |-> {},
          made |-> [j \in AllIdx |-> "none"], srt |-> {}, lost |-> {},
          trace |-> <<>>, done |-> {}, failed |-> 0, thrown |-> "none"]

Range(s) == {s[n] : n \in DOMAIN s}
Bump(n) == IF n < CountCap THEN n + 1 ELSE n

Keys == {KeyOf(t) : t \in Tables}
OkRes == [type |-> "ok", stage |-> 0, by |-> NoOne, cause |-> "none"]

\* --------------------------------------------------------------- withRetry
\* const isRetryable = code === 429 || (code >= 500 && code < 600) || !code
IsRetryable(code) == code = 429 \/ (code >= 500 /\ code < 600) \/ code = 0

\* withRetry's catch: another attempt while retries are left and the code is retryable
ShouldRetry(retries, code) == retries > 0 /\ IsRetryable(code)

\* ------------------------------------------------- what a manager step gives
StageOf(label) ==
    CASE label \in {"db.list", "db.get", "db.create"} -> StDatabase
      [] label \in {"tbl.get", "tbl.update", "tbl.create"} -> StTable
      [] label \in {"col.list", "col.create", "col.updateSize", "col.updateEnum"} -> StColumns
      [] OTHER -> StIndexes

Collapse(trace, s) ==
    IF trace # <<>> /\ trace[Len(trace)] = s THEN trace ELSE Append(trace, s)

\* what outlives a manager's locals: the record of the pass
Keep(l) == [NoLoc EXCEPT !.trace = l.trace, !.done = l.done, !.failed = l.failed,
                         !.thrown = l.thrown, !.waitFailed = l.waitFailed, !.ix = l.ix,
                         !.idxs = l.idxs, !.del = l.del, !.asked = l.asked,
                         !.made = l.made, !.srt = l.srt,
                         !.lost = l.lost]

\* a remote call is issued, outside withRetry, and the pass suspends on it
Call(l, label) ==
    [kind |-> "call", cause |-> "none",
     loc |-> [l EXCEPT !.at = label, !.retries = 0, !.calls = @ \cup {label},
                       !.trace = Collapse(@, StageOf(label))]]
\* the same, through withRetry with its default budget
CallR(l, label) ==
    [kind |-> "call", cause |-> "none",
     loc |-> [l EXCEPT !.at = label, !.retries = DefaultRetries, !.calls = @ \cup {label},
                       !.trace = Collapse(@, StageOf(label))]]
\* withRetry's recursive call: withRetry(operation, retries - 1, delay * 2)
Again(l) == [kind |-> "call", cause |-> "none", loc |-> [l EXCEPT !.retries = @ - 1]]
\* the manager of stage s returned
Done(l, s) == [kind |-> "done", cause |-> "none", loc |-> [Keep(l) EXCEPT !.done = @ \cup {s}]]
\* the manager of stage s threw an error of the given kind
Throw(l, s, cause) ==
    [kind |-> "throw", cause |-> cause, loc |-> [Keep(l) EXCEPT !.failed = s, !.thrown = cause]]

\* --------------------------------------------------------- DatabaseManager
AfterVerify(l, dbs) ==
    IF DatabaseId \in dbs THEN Done(l, StDatabase) ELSE Call(l, "db.get")

\* faulty variant: verifyConnection reads whatever the flag says
syncDatabaseRecheck(l, connOk, dbs) == Call(l, "db.list")

\* await this.verifyConnection(), which returns at once when the flag is set
syncDatabase(l, connOk, dbs) ==
    IF connOk THEN AfterVerify(l, dbs) ELSE Call(l, "db.list")

\* ------------------------------------------------------------ TableManager
Sort(s) == SortSeq(s, LAMBDA x, y : x < y)

\* faulty variant: the permissions are compared in the order they come
needsUpdateOrdered(local, remote) ==
    LET localPerms == IF local.permissions.def THEN local.permissions.val ELSE <<>>
        localSec == local.rowSecurity = "true"
    IN  \/ localPerms # remote.permissions
        \/ localSec # remote.rowSecurity
        \/ (local.enabled # "undef" /\ (local.enabled = "true") # remote.enabled)

\* reconcileSettings: does the declaration differ from the remote table
needsUpdate(local, remote) ==
    LET localPerms == Sort(IF local.permissions.def THEN local.permissions.val ELSE <<>>)
        remotePerms == Sort(remote.permissions)
        localSec == local.rowSecurity = "true"
    IN  \/ localPerms # remotePerms
        \/ localSec # remote.rowSecurity
        \/ (local.enabled # "undef" /\ (local.enabled = "true") # remote.enabled)

\* the table after updateTable(updatePayload); sort() has sorted the declared array in place
updatePayloadApplied(local, remote) ==
    [remote EXCEPT
        !.permissions = IF local.permissions.def THEN Sort(local.permissions.val) ELSE @,
        !.rowSecurity = IF local.rowSecurity # "undef" THEN local.rowSecurity = "true" ELSE @,
        !.enabled = IF local.enabled # "undef" THEN local.enabled = "true" ELSE @]

\* createTable's payload: ...(schema.permissions ? {permissions} : {}),
\* ...(schema.rowSecurity ? {rowSecurity} : {}), ...(schema.enabled ? {enabled} : {}):
\* a field is sent only when its declared value is truthy ("unsent" otherwise)
createTablePayload(local) ==
    [name |-> local.name,
     permissions |-> IF local.permissions.def THEN local.permissions
                     ELSE [def |-> FALSE, val |-> <<>>],
     rowSecurity |-> IF local.rowSecurity = "true" THEN "true" ELSE "unsent",
     enabled |-> IF local.enabled = "true" THEN "true" ELSE "unsent"]

\* the table createTable's payload makes: the backend defaults what was not sent
\* (no permissions, rowSecurity false, enabled true)
createdTable(local) ==
    LET payload == createTablePayload(local) IN
    [present |-> TRUE,
     permissions |-> IF payload.permissions.def THEN payload.permissions.val ELSE <<>>,
     rowSecurity |-> IF payload.rowSecurity = "unsent" THEN FALSE
                     ELSE payload.rowSecurity = "true",
     enabled |-> IF payload.enabled = "unsent" THEN TRUE ELSE payload.enabled = "true"]

\* faulty variant: createTable's catch re-throws the conflict too
AfterCreateTableNoConflict(l, code) ==
    IF code = 200 THEN Done(l, StTable)
    ELSE IF ShouldRetry(l.retries, code) THEN Again(l)
    ELSE Throw(l, StTable, "Raw")

\* faulty variant: the table is created whether getTable found it or not
AfterGetTableRecreate(t, l, code, remote) ==
    IF code = 200 \/ code = 404 THEN CallR(l, "tbl.create")
    ELSE Throw(l, StTable, "Appwrite")

AfterGetTable(t, l, code, remote) ==
    LET lg == [l EXCEPT !.got = code] IN
    IF code = 200
    THEN IF needsUpdate(Schema(t), remote) THEN CallR(lg, "tbl.update") ELSE Done(lg, StTable)
    ELSE IF code = 404 THEN CallR(lg, "tbl.create")
    ELSE Throw(lg, StTable, "Appwrite")

\* updateTable failed for good inside the try of syncTableStructure
AfterUpdateTable(l, code) ==
    IF code = 200 THEN Done(l, StTable)
    ELSE IF ShouldRetry(l.retries, code) THEN Again(l)
    ELSE IF code = 404 THEN CallR(l, "tbl.create")
    ELSE Throw(l, StTable, "Appwrite")

AfterCreateTable(l, code) ==
    IF code = 200 THEN Done(l, StTable)
    ELSE IF ShouldRetry(l.retries, code) THEN Again(l)
    ELSE IF code = 409 THEN Done(l, StTable)
    ELSE Throw(l, StTable, "Raw")

\* ----------------------------------------------------------- ColumnManager
\* local.elements.filter((e) => !remoteElements.includes(e))
newElements(localEls, remoteEls) ==
    SelectSeq(localEls, LAMBDA e : e \notin Range(remoteEls))

\* the column a create<Kind>Column call makes; the backend provisions it asynchronously
createdColumn(col) ==
    [present |-> TRUE, type |-> col.type, array |-> col.array, size |-> col.size,
     elements |-> col.elements, status |-> "processing"]

\* faulty variant: a relationship column of another kind is a conflict like any other
reconcileRelationshipFatal(local, remote) ==
    IF local.type # remote.type THEN "validation"
    ELSE IF local.array # remote.array THEN "error"
    ELSE IF local.type = "string" /\ local.size > remote.size THEN "updateSize"
    ELSE IF local.type = "enum" /\ newElements(local.elements, remote.elements) # <<>>
    THEN "updateEnum"
    ELSE "none"

\* faulty variant: a string column is resized whenever the sizes differ
reconcileResize(local, remote) ==
    IF local.type # remote.type
    THEN IF local.type = "relationship" THEN "none" ELSE "validation"
    ELSE IF local.array # remote.array THEN "error"
    ELSE IF local.type = "string" /\ local.size # remote.size THEN "updateSize"
    ELSE IF local.type = "enum" /\ newElements(local.elements, remote.elements) # <<>>
    THEN "updateEnum"
    ELSE "none"

\* faulty variant: an enum column is updated whenever its elements are not the declared list
reconcileEnumDiffers(local, remote) ==
    IF local.type # remote.type
    THEN IF local.type = "relationship" THEN "none" ELSE "validation"
    ELSE IF local.array # remote.array THEN "error"
    ELSE IF local.type = "string" /\ local.size > remote.size THEN "updateSize"
    ELSE IF local.type = "enum" /\ local.elements # remote.elements THEN "updateEnum"
    ELSE "none"

\* reconcile(local, remote), up to the call it issues or the error it throws:
\* a kind mismatch returns for a relationship and throws a Validation error
\* otherwise; an array mismatch throws a plain Error; a string column grows to
\* the declared size; an enum column gets the elements it lacks
reconcile(local, remote) ==
    IF local.type # remote.type
    THEN IF local.type = "relationship" THEN "none" ELSE "validation"
    ELSE IF local.array # remote.array THEN "error"
    ELSE IF local.type = "string" /\ local.size > remote.size THEN "updateSize"
    ELSE IF local.type = "enum" /\ newElements(local.elements, remote.elements) # <<>>
    THEN "updateEnum"
    ELSE "none"

RECURSIVE columnLoop(_, _, _)
\* for (const column of columns): from the i-th declared column on, against the
\* snapshot listColumns gave (l.cols), up to the next remote call
columnLoop(t, l, i) ==
    IF i > Len(Schema(t).columns) THEN Done(l, StColumns)
    ELSE LET local == Schema(t).columns[i]
             remote == l.cols[local.key]
             li == [l EXCEPT !.i = i]
             v == reconcile(local, remote)
         IN  IF ~remote.present THEN CallR(li, "col.create")
             ELSE IF v = "validation" THEN Throw(li, StColumns, "Validation")
             ELSE IF v = "error" THEN Throw(li, StColumns, "Error")
             ELSE IF v = "updateSize" THEN CallR(li, "col.updateSize")
             ELSE IF v = "updateEnum" THEN CallR(li, "col.updateEnum")
             ELSE columnLoop(t, l, i + 1)

syncColumns(t, l) ==
    IF Len(Schema(t).columns) > 0 THEN Call(l, "col.list") ELSE Done(l, StColumns)

AfterListColumns(t, l, code, remoteCols) ==
    IF code = 200 THEN columnLoop(t, [l EXCEPT !.cols = remoteCols], 1)
    ELSE Throw(l, StColumns, "Raw")

\* faulty variant: createColumn's catch swallows every error
AfterCreateColumnSwallow(t, l, code) ==
    IF code = 200 THEN columnLoop(t, l, l.i + 1)
    ELSE IF ShouldRetry(l.retries, code) THEN Again(l)
    ELSE columnLoop(t, l, l.i + 1)

\* createColumn's catch swallows 409; anything else is re-thrown
AfterCreateColumn(t, l, code) ==
    IF code = 200 THEN columnLoop(t, l, l.i + 1)
    ELSE IF ShouldRetry(l.retries, code) THEN Again(l)
    ELSE IF code = 409 THEN columnLoop(t, l, l.i + 1)
    ELSE Throw(l, StColumns, "Raw")

\* updateStringColumn / updateEnumColumn inside withRetry, no catch around it
AfterUpdateColumn(t, l, code) ==
    IF code = 200 THEN columnLoop(t, l, l.i + 1)
    ELSE IF ShouldRetry(l.retries, code) THEN Again(l)
    ELSE Throw(l, StColumns, "Raw")

\* ------------------------------------------------------------ IndexManager
Count(s, x) == Cardinality({n \in DOMAIN s : s[n] = x})
\* a.sort().join(",") === b.sort().join(","): the same keys with the same multiplicities
sameSorted(a, b) ==
    /\ Len(a) = Len(b)
    /\ \A x \in Range(a) \cup Range(b) : Count(a, x) = Count(b, x)

\* Array.prototype.sort() without a comparator: by code units, in place
rank(k) == IF k = "a" THEN 1 ELSE 2

sortCols(cols) == SortSeq(cols, LAMBDA x, y : rank(x) < rank(y))

\* the columns arrays as the declarations give them
declaredColumns(t) ==
    [k \in AllIdx |->
        IF \E n \in DOMAIN Schema(t).indexes : Schema(t).indexes[n].key = k
        THEN Schema(t).indexes[CHOOSE n \in DOMAIN Schema(t).indexes :
                                   Schema(t).indexes[n].key = k].columns
        ELSE <<>>]

\* local.columns.sort() of the drift check: the arrays of the indexes in l.srt,
\* sorted where they stand
sortedInPlace(t, l, now) ==
    [now EXCEPT ![t] = [k \in AllIdx |-> IF k \in l.srt THEN sortCols(@[k]) ELSE @[k]]]

isGhost(remote) == remote.status = "failed" \/ remote.status = "stuck"

\* faulty variant: the columns are compared in the order they come
isDriftedOrdered(local, remote) ==
    remote.type # local.type \/ remote.columns # local.columns

isDrifted(local, remote) ==
    remote.type # local.type \/ ~sameSorted(remote.columns, local.columns)

\* createIndex, first half: one waitForColumn per participating column, each
\* issuing its first getColumn at once
startWait(t, l, j) ==
    LET index == Schema(t).indexes[j] IN
    Call([l EXCEPT !.i = j,
                   !.polls = [k \in AllCols |-> IF k \in Range(index.columns) THEN 0 ELSE -1],
                   !.seen = [k \in AllCols |-> NoRead],
                   !.ix[index.key] = "wait"],
         "idx.wait")

RECURSIVE indexLoop(_, _, _)
\* for (const index of localIndexes): from the j-th declared index on
indexLoop(t, l, j) ==
    IF j > Len(Schema(t).indexes) THEN Done(l, StIndexes)
    ELSE LET index == Schema(t).indexes[j]
             remoteIndex == l.idxs[index.key]
         IN  IF remoteIndex.present
             THEN IF isGhost(remoteIndex)
                  THEN Call([l EXCEPT !.i = j, !.del[index.key] = "issued"], "idx.delete")
                  ELSE IF isDrifted(index, remoteIndex)
                  THEN Call([l EXCEPT !.i = j, !.del[index.key] = "issued",
                                      !.srt = @ \cup {index.key}], "idx.delete")
                  ELSE indexLoop(t, [l EXCEPT !.ix[index.key] = "healthy",
                                              !.srt = @ \cup {index.key}], j + 1)
             ELSE startWait(t, l, j)

syncIndexes(t, l) ==
    IF Len(Schema(t).indexes) > 0 THEN Call(l, "idx.list") ELSE Done(l, StIndexes)

AfterListIndexes(t, l, code, remoteIdx) ==
    IF code = 200 THEN indexLoop(t, [l EXCEPT !.idxs = remoteIdx], 1)
    ELSE Throw(l, StIndexes, "Raw")

\* deleteIndexSafe catches every error; checkHealthAndDrift then returns true
AfterDeleteIndex(t, l, code) ==
    LET got == IF code = 200 THEN "ok" ELSE IF code = 404 THEN "notfound" ELSE "error" IN
    startWait(t, [l EXCEPT !.del[Schema(t).indexes[l.i].key] = got], l.i)

noPolls == [k \in AllCols |-> -1]

\* faulty variant: any column that could be read counts as ready
pollVerdictAnyStatus(code, status) ==
    IF code = 200 THEN "return" ELSE IF code = 404 THEN "sleep" ELSE "throw"

\* faulty variant: every error of a read is ignored, as 404 is
pollVerdictIgnoreErrors(code, status) ==
    IF code # 200 THEN "sleep"
    ELSE IF status = "available" THEN "return"
    ELSE IF status = "failed" THEN "throw" ELSE "sleep"

\* one turn of waitForColumn's loop, given the answer of getColumn: return on
\* available; status failed throws an Error that the loop's own catch turns into
\* an Appwrite error, as it does every error but 404; otherwise sleep and go on
pollVerdict(code, status) ==
    IF code = 200
    THEN IF status = "available" THEN "return"
         ELSE IF status = "failed" THEN "throw" ELSE "sleep"
    ELSE IF code = 404 THEN "sleep" ELSE "throw"

\* faulty variant: the loop has no attempt budget
loopVerdictUnbounded(attempts) == "read"

\* while (attempts < maxAttempts) ... ; throw LazyError.timeout(...)
loopVerdict(attempts) == IF attempts < maxAttempts THEN "read" ELSE "timeout"

\* faulty variant: a failed wait is thrown on instead of being caught
skipIndexThrow(t, l) == Throw(l, StIndexes, "Appwrite")

\* createIndex's catch around Promise.all: log, return; the loop takes the next index
skipIndex(t, l) == indexLoop(t, [l EXCEPT !.polls = noPolls], l.i + 1)

\* waitForColumn for column k got an answer: code 200 with the column's status, or an error
AfterPoll(t, l, k, code, status) ==
    LET v == pollVerdict(code, status) IN
    IF v = "return"
    THEN LET left == [l.polls EXCEPT ![k] = -1] IN
         IF left = noPolls
         THEN CallR([l EXCEPT !.polls = noPolls,
                              !.asked = @ \cup {Schema(t).indexes[l.i].key}],
                    "idx.create")
         ELSE Call([l EXCEPT !.polls = left], "idx.wait")
    ELSE IF v = "sleep" /\ loopVerdict(l.polls[k] + 1) = "read"
    THEN \* sleep(200); attempts++; the next getColumn
         Call([l EXCEPT !.polls[k] = @ + 1], "idx.wait")
    ELSE \* the wait threw (Appwrite or Timeout): Promise.all rejects
         skipIndex(t, l)

\* what the backend told the wait for column k of the index being worked on,
\* recorded as it was told
Observe(t, l, k, code, status) ==
    LET got == IF code = 200 THEN status ELSE IF code = 404 THEN "notfound" ELSE "error"
        n == l.seen[k].n + 1
        bad == got \in {"failed", "error"} \/ (n >= maxAttempts /\ got # "available")
    IN  [l EXCEPT !.seen[k] = [status |-> got, n |-> n],
                  !.waitFailed = IF bad THEN @ \cup {Schema(t).indexes[l.i].key} ELSE @]

\* createIndex, second half: withRetry, and a catch that swallows every error
AfterCreateIndex(t, l, code) ==
    LET got == IF code = 200 THEN "ok" ELSE IF code = 409 THEN "conflict" ELSE "error"
        lm == [l EXCEPT !.made[Schema(t).indexes[l.i].key] = got]
    IN  IF code = 200 THEN indexLoop(t, lm, l.i + 1)
        ELSE IF ShouldRetry(l.retries, code) THEN Again(l)
        ELSE indexLoop(t, lm, l.i + 1)

\* the index createIndex makes
createdIndex(index) ==
    [present |-> TRUE, type |-> index.type, columns |-> index.columns, status |-> "available"]

\* ---------------------------------------------------- LazySync.syncTable
\* faulty variant: the stage's error is thrown on as it is
ConfigErrUnwrapped(c, s, cause) == [type |-> cause, stage |-> 0, by |-> c, cause |-> "none"]

ConfigErr(c, s, cause) == [type |-> "Config", stage |-> s, by |-> c, cause |-> cause]

\* the first step of stage s
beginStage(t, l, s) ==
    CASE s = StTable -> Call(l, "tbl.get")
      [] s = StColumns -> syncColumns(t, l)
      [] OTHER -> syncIndexes(t, l)

\* faulty variant: a stage's error is swallowed and the next stage runs
stageVerdictSwallow(kind, s) ==
    CASE kind = "call" -> "suspend"
      [] s = StIndexes -> "ok"
      [] OTHER -> "next"

\* what syncTable does with the outcome of stage s: each stage sits in its own
\* try/catch whose catch throws LazyError.config, and the next stage follows
stageVerdict(kind, s) ==
    CASE kind = "call" -> "suspend"
      [] kind = "throw" -> "fail"
      [] kind = "done" /\ s = StIndexes -> "ok"
      [] OTHER -> "next"

RECURSIVE syncTable(_, _, _, _)
\* The orchestrator, given what the manager of stage s has just done (r): suspend on
\* the call it issued, wrap what it threw into a Config error and stop, or go on
\* with the next stage; after the last stage the pass has succeeded.
syncTable(c, t, s, r) ==
    LET v == stageVerdict(r.kind, s) IN
    IF v = "suspend" THEN [ev |-> "cont", loc |-> r.loc, err |-> NoErr]
    ELSE IF v = "fail" THEN [ev |-> "fail", loc |-> r.loc, err |-> ConfigErr(c, s, r.cause)]
    ELSE IF v = "ok" THEN [ev |-> "ok", loc |-> r.loc, err |-> NoErr]
    ELSE syncTable(c, t, s + 1, beginStage(t, r.loc, s + 1))

\* ------------------------------------------------------- LazyTable.prepare
\* faulty variant: no wait path: a caller leads although a synchronisation is in flight
prepareBranchNoWait(k, verified, pending) ==
    IF k \in verified THEN "verified" ELSE "lead"

\* faulty variant: no verified cache: the key is never found verified
prepareBranchNoCache(k, verified, pending) ==
    IF pending[k] # NoOne THEN "wait" ELSE "lead"

\* the three paths of prepare, in the order the source tests them
prepareBranch(k, verified, pending) ==
    IF k \in verified THEN "verified"
    ELSE IF pending[k] # NoOne THEN "wait"
    ELSE "lead"

\* faulty variant: the waiter does not await the promise
canResumeAlways(state) == TRUE

\* faulty variant: the waiter is never resumed
canResumeNever(state) == FALSE

\* await LazyTable.pendingSyncs.get(key): the waiter resumes once the promise is settled
canResume(state) == state # "pending"

\* faulty variant: no catch around the await: the leader's error reaches the follower
waitPathThrow(state) == IF state = "rejected" THEN "throw" ELSE "return"

\* faulty variant: the waiter re-enters prepare whatever the promise gave
waitPathRetryAlways(state) == "retry"

\* the wait path's try/catch: return when the promise fulfilled, this.prepare() when it rejected
waitPath(state) == IF state = "rejected" THEN "retry" ELSE "return"

\* faulty variant: verifiedTables.add(key) moved into the finally block
verifiedAfterAlways(verified, k, ev) == verified \cup {k}

\* faulty variant: verifiedTables.add(key) forgotten
verifiedAfterNever(verified, k, ev) == verified

\* the leader's async block: verifiedTables.add(key) after syncTable returned
verifiedAfter(verified, k, ev) == IF ev = "ok" THEN verified \cup {k} ELSE verified

\* faulty variant: pendingSyncs.delete(key) only after a success, not in a finally
pendingAfterOnSuccess(pending, k, ev) ==
    IF ev = "ok" THEN [pending EXCEPT ![k] = NoOne] ELSE pending

\* the leader's finally: pendingSyncs.delete(key)
pendingAfter(pending, k, ev) == [pending EXCEPT ![k] = NoOne]

\* faulty variant: the row call is issued however prepare ended
rowCallAnyway(ended) == TRUE

\* create, update, delete: await this.prepare() and then the row call, in the same
\* turn in which prepare returns; a throw of prepare leaves the method before it
rowCallAfter(ended) == ended = "return"

\* One entry into prepare by caller c for table t, up to its first suspension point.
Enter(c, t, again) ==
    LET k == KeyOf(t)
        b == prepareBranch(k, verifiedTables, pendingSyncs)
        first == syncTable(c, t, StDatabase,
                           syncDatabase(NoLoc, isConnectionVerified, verifiedDatabases))
    IN  /\ key' = [key EXCEPT ![c] = t]
        /\ retried' = [retried EXCEPT ![c] = IF again THEN @ + 1 ELSE @]
        /\ shortCut' = [shortCut EXCEPT ![c] = (b = "verified")]
        /\ rowCall' = [rowCall EXCEPT ![c] = IF b = "verified" THEN rowCallAfter("return") ELSE @]
        /\ pc' = [pc EXCEPT ![c] = CASE b = "verified" -> "done"
                                     [] b = "wait" -> "waiting"
                                     [] OTHER -> "sync"]
        /\ result' = [result EXCEPT ![c] = IF b = "verified" THEN OkRes ELSE @]
        /\ awaiting' = [awaiting EXCEPT ![c] = IF b = "wait" THEN pendingSyncs[k] ELSE @]
        /\ promise' = [promise EXCEPT ![c] = IF b = "lead" THEN "pending" ELSE @]
        /\ pendingSyncs' = IF b = "lead" THEN [pendingSyncs EXCEPT ![k] = c] ELSE pendingSyncs
        /\ led' = [led EXCEPT ![c] = IF b = "lead" THEN @ + 1 ELSE @]
        /\ loc' = [loc EXCEPT ![c] = IF b = "lead" THEN first.loc ELSE @]
        /\ UNCHANGED <<verifiedTables, perr, okRuns, failRuns>>

\* a caller starts an operation on table t: await this.prepare()
\* (callers are interchangeable: they are numbered in the order they start)
Invoke(c, t) ==
    /\ pc[c] = "idle"
    /\ \A d \in Callers : d < c => pc[d] # "idle"
    /\ Enter(c, t, FALSE)
    /\ UNCHANGED <<dbmVars, remoteVars, faults, scenario, indexColumns, unitVars, countVars>>

\* a follower resumes from await pendingSyncs.get(key)
FollowerResume(c) ==
    /\ pc[c] = "waiting"
    /\ canResume(promise[awaiting[c]])
    /\ LET w == waitPath(promise[awaiting[c]]) IN
       IF w = "retry" THEN Enter(c, key[c], TRUE)
       ELSE /\ pc' = [pc EXCEPT ![c] = "done"]
            /\ result' = [result EXCEPT ![c] = IF w = "return" THEN OkRes ELSE perr[awaiting[c]]]
            /\ UNCHANGED <<verifiedTables, pendingSyncs, promise, perr, key, awaiting,
                           retried, shortCut, led, okRuns, failRuns, loc>>
            /\ rowCall' = [rowCall EXCEPT ![c] = rowCallAfter(w)]
    /\ UNCHANGED <<dbmVars, remoteVars, faults, scenario, indexColumns, unitVars, countVars>>

\* the leader resumes from await syncPromise: returns, or re-throws the error
LeaderReturn(c) ==
    /\ pc[c] = "settled"
    /\ pc' = [pc EXCEPT ![c] = "done"]
    /\ result' = [result EXCEPT ![c] = IF promise[c] = "fulfilled" THEN OkRes ELSE perr[c]]
    /\ rowCall' = [rowCall EXCEPT ![c] =
                        rowCallAfter(IF promise[c] = "fulfilled" THEN "return" ELSE "throw")]
    /\ UNCHANGED <<verifiedTables, pendingSyncs, promise, perr, key, awaiting,
                   retried, shortCut, led, okRuns, failRuns, loc>>
    /\ UNCHANGED <<dbmVars, remoteVars, faults, scenario, indexColumns, unitVars, countVars>>

\* The pass of leader c goes on (out.ev = "cont") or ends: the async block adds the
\* key on success, its finally deletes the pending entry, and the promise settles,
\* all before the next suspension point.
Commit(c, out) ==
    LET k == KeyOf(key[c]) IN
    IF out.ev = "cont"
    THEN /\ loc' = [loc EXCEPT ![c] = out.loc]
         /\ UNCHANGED guardVars
    ELSE /\ loc' = [loc EXCEPT ![c] = Keep(out.loc)]
         /\ verifiedTables' = verifiedAfter(verifiedTables, k, out.ev)
         /\ pendingSyncs' = pendingAfter(pendingSyncs, k, out.ev)
         /\ promise' = [promise EXCEPT ![c] = IF out.ev = "ok" THEN "fulfilled" ELSE "rejected"]
         /\ perr' = [perr EXCEPT ![c] = out.err]
         /\ pc' = [pc EXCEPT ![c] = "settled"]
         /\ okRuns' = [okRuns EXCEPT ![key[c]] = IF out.ev = "ok" THEN Bump(@) ELSE @]
         /\ failRuns' = [failRuns EXCEPT ![key[c]] = IF out.ev = "ok" THEN @ ELSE Bump(@)]
         /\ UNCHANGED <<key, awaiting, retried, result, shortCut, rowCall, led>>

\* ------------------------------------------------------------- the backend
\* the answers a call may get: the one the remote state gives, or an injected error
Answers(natural) == {natural} \cup (IF faults < MaxFaults THEN FaultCodes ELSE {})
Faulted(code) == IF code \in FaultCodes THEN faults + 1 ELSE faults

\* A continuation that is ready to run: a leader or a follower whose promise is
\* settled.  Promise reactions are microtasks; the event loop runs them all before
\* it delivers the next I/O completion.
Runnable(c) ==
    \/ pc[c] = "settled"
    \/ pc[c] = "waiting" /\ canResume(promise[awaiting[c]])
MicrotasksDrained == \A c \in Callers : ~Runnable(c)

\* the pass of c is suspended on the call `label` and its answer can be delivered
At(c, label) == pc[c] = "sync" /\ loc[c].at = label /\ MicrotasksDrained

\* ----------------------------------------- DatabaseManager.syncDatabase steps
\* databases.list({queries: [Query.limit(1)]}) answered (verifyConnection)
DbListResp(c) ==
    /\ At(c, "db.list")
    /\ \E code \in Answers(200) :
        /\ faults' = Faulted(code)
        /\ isConnectionVerified' = (isConnectionVerified \/ code = 200)
        /\ Commit(c, syncTable(c, key[c], StDatabase,
                    IF code = 200 THEN AfterVerify(loc[c], verifiedDatabases)
                    ELSE Throw(loc[c], StDatabase, "Config")))
    /\ UNCHANGED <<verifiedDatabases, remoteVars, scenario, indexColumns, unitVars, countVars>>

\* databases.get({databaseId}) answered
DbGetResp(c) ==
    /\ At(c, "db.get")
    /\ \E code \in Answers(IF rDb THEN 200 ELSE 404) :
        /\ faults' = Faulted(code)
        /\ verifiedDatabases' = IF code = 200 THEN verifiedDatabases \cup {DatabaseId}
                                ELSE verifiedDatabases
        /\ Commit(c, syncTable(c, key[c], StDatabase,
                    IF code = 200 THEN Done(loc[c], StDatabase)
                    ELSE IF code = 404 THEN Call(loc[c], "db.create")
                    ELSE Throw(loc[c], StDatabase, "Raw")))
    /\ UNCHANGED <<isConnectionVerified, remoteVars, scenario, indexColumns, unitVars, countVars>>

\* databases.create({databaseId, name}) answered; every error becomes an Appwrite error
DbCreateResp(c) ==
    /\ At(c, "db.create")
    /\ \E code \in Answers(IF rDb THEN 409 ELSE 200) :
        /\ faults' = Faulted(code)
        /\ rDb' = (rDb \/ code = 200)
        /\ verifiedDatabases' = IF code = 200 THEN verifiedDatabases \cup {DatabaseId}
                                ELSE verifiedDatabases
        /\ Commit(c, syncTable(c, key[c], StDatabase,
                    IF code = 200 THEN Done(loc[c], StDatabase)
                    ELSE Throw(loc[c], StDatabase, "Appwrite")))
    /\ UNCHANGED <<isConnectionVerified, rTable, rCols, rIdx, scenario, indexColumns, unitVars, countVars>>

\* ------------------------------------- TableManager.syncTableStructure steps
TblGetResp(c) ==
    /\ At(c, "tbl.get")
    /\ \E code \in Answers(IF rTable[key[c]].present THEN 200 ELSE 404) :
        /\ faults' = Faulted(code)
        /\ Commit(c, syncTable(c, key[c], StTable,
                    AfterGetTable(key[c], loc[c], code, rTable[key[c]])))
    /\ UNCHANGED <<dbmVars, remoteVars, scenario, indexColumns, unitVars, countVars>>

TblUpdateResp(c) ==
    /\ At(c, "tbl.update")
    /\ \E code \in Answers(IF rTable[key[c]].present THEN 200 ELSE 404) :
        /\ faults' = Faulted(code)
        /\ rTable' = IF code = 200
                     THEN [rTable EXCEPT ![key[c]] = updatePayloadApplied(Schema(key[c]), @)]
                     ELSE rTable
        /\ Commit(c, syncTable(c, key[c], StTable, AfterUpdateTable(loc[c], code)))
    /\ UNCHANGED <<dbmVars, rDb, rCols, rIdx, scenario, indexColumns, unitVars, countVars>>

TblCreateResp(c) ==
    /\ At(c, "tbl.create")
    /\ \E code \in Answers(IF rTable[key[c]].present THEN 409 ELSE 200) :
        /\ faults' = Faulted(code)
        /\ rTable' = IF code = 200
                     THEN [rTable EXCEPT ![key[c]] = createdTable(Schema(key[c]))]
                     ELSE rTable
        /\ nCreateTable' = [nCreateTable EXCEPT ![key[c]] = Bump(@)]
        /\ Commit(c, syncTable(c, key[c], StTable, AfterCreateTable(loc[c], code)))
    /\ UNCHANGED <<dbmVars, rDb, rCols, rIdx, scenario, indexColumns, unitVars, nCreateCol>>

\* --------------------------------------------- ColumnManager.syncColumns steps
ColListResp(c) ==
    /\ At(c, "col.list")
    /\ \E code \in Answers(IF rTable[key[c]].present THEN 200 ELSE 404) :
        /\ faults' = Faulted(code)
        /\ Commit(c, syncTable(c, key[c], StColumns,
                    AfterListColumns(key[c], loc[c], code, rCols[key[c]])))
    /\ UNCHANGED <<dbmVars, remoteVars, scenario, indexColumns, unitVars, countVars>>

\* the declared column the pass of c is working on
ColumnAt(c) == Schema(key[c]).columns[loc[c].i]

ColCreateResp(c) ==
    /\ At(c, "col.create")
    /\ LET t == key[c]
           col == ColumnAt(c)
       IN \E code \in Answers(IF ~rTable[t].present THEN 404
                              ELSE IF rCols[t][col.key].present THEN 409 ELSE 200) :
            /\ faults' = Faulted(code)
            /\ rCols' = IF code = 200
                        THEN [rCols EXCEPT ![t][col.key] = createdColumn(col)]
                        ELSE rCols
            /\ nCreateCol' = [nCreateCol EXCEPT ![t][col.key] = Bump(@)]
            /\ Commit(c, syncTable(c, t, StColumns, AfterCreateColumn(t, loc[c], code)))
    /\ UNCHANGED <<dbmVars, rDb, rTable, rIdx, scenario, indexColumns, unitVars, nCreateTable>>

\* updateStringColumn({..., size: local.size}) answered
ColUpdateSizeResp(c) ==
    /\ At(c, "col.updateSize")
    /\ LET t == key[c]
           col == ColumnAt(c)
       IN \E code \in Answers(IF rCols[t][col.key].present THEN 200 ELSE 404) :
            /\ faults' = Faulted(code)
            /\ rCols' = IF code = 200
                        THEN [rCols EXCEPT ![t][col.key].size = col.size]
                        ELSE rCols
            /\ Commit(c, syncTable(c, t, StColumns, AfterUpdateColumn(t, loc[c], code)))
    /\ UNCHANGED <<dbmVars, rDb, rTable, rIdx, scenario, indexColumns, unitVars, countVars>>

\* updateEnumColumn({..., elements: [...remoteElements, ...newElements]}) answered
ColUpdateEnumResp(c) ==
    /\ At(c, "col.updateEnum")
    /\ LET t == key[c]
           col == ColumnAt(c)
           remoteElements == loc[c].cols[col.key].elements
           finalElements == remoteElements \o newElements(col.elements, remoteElements)
       IN \E code \in Answers(IF rCols[t][col.key].present THEN 200 ELSE 404) :
            /\ faults' = Faulted(code)
            /\ rCols' = IF code = 200
                        THEN [rCols EXCEPT ![t][col.key].elements = finalElements]
                        ELSE rCols
            /\ Commit(c, syncTable(c, t, StColumns, AfterUpdateColumn(t, loc[c], code)))
    /\ UNCHANGED <<dbmVars, rDb, rTable, rIdx, scenario, indexColumns, unitVars, countVars>>

\* ----------------------------------------------- IndexManager.syncIndexes steps
IdxListResp(c) ==
    /\ At(c, "idx.list")
    /\ \E code \in Answers(IF rTable[key[c]].present THEN 200 ELSE 404) :
        /\ faults' = Faulted(code)
        /\ LET l == AfterListIndexes(key[c], loc[c], code, rIdx[key[c]]) IN
            /\ indexColumns' = sortedInPlace(key[c], l.loc, indexColumns)
            /\ Commit(c, syncTable(c, key[c], StIndexes, l))
    /\ UNCHANGED <<dbmVars, remoteVars, scenario, unitVars, countVars>>

\* the declared index the pass of c is working on
IndexAt(c) ==
    [Schema(key[c]).indexes[loc[c].i] EXCEPT
        !.columns = indexColumns[key[c]][Schema(key[c]).indexes[loc[c].i].key]]

IdxDeleteResp(c) ==
    /\ At(c, "idx.delete")
    /\ LET t == key[c]
           index == IndexAt(c)
       IN \E code \in Answers(IF rIdx[t][index.key].present THEN 200 ELSE 404) :
            /\ faults' = Faulted(code)
            /\ rIdx' = IF code = 200 THEN [rIdx EXCEPT ![t][index.key] = NoIdx] ELSE rIdx
            /\ Commit(c, syncTable(c, t, StIndexes, AfterDeleteIndex(t, loc[c], code)))
    /\ UNCHANGED <<dbmVars, rDb, rTable, rCols, scenario, indexColumns, unitVars, countVars>>

\* one getColumn of waitForColumn(k) answered
IdxPollResp(c, k) ==
    /\ At(c, "idx.wait")
    /\ loc[c].polls[k] >= 0
    /\ LET t == key[c] IN
       \E code \in Answers(IF rCols[t][k].present THEN 200 ELSE 404) :
            /\ faults' = Faulted(code)
            /\ LET l == AfterPoll(t, Observe(t, loc[c], k, code, rCols[t][k].status),
                                  k, code, rCols[t][k].status) IN
                /\ indexColumns' = sortedInPlace(t, l.loc, indexColumns)
                /\ Commit(c, syncTable(c, t, StIndexes, l))
    /\ UNCHANGED <<dbmVars, remoteVars, scenario, unitVars, countVars>>

IdxCreateResp(c) ==
    /\ At(c, "idx.create")
    /\ LET t == key[c]
           index == IndexAt(c)
       IN \E code \in Answers(IF ~rTable[t].present THEN 404
                              ELSE IF rIdx[t][index.key].present THEN 409 ELSE 200) :
            /\ faults' = Faulted(code)
            /\ rIdx' = IF code = 200
                       THEN [rIdx EXCEPT ![t][index.key] = createdIndex(index)]
                       ELSE rIdx
            /\ LET l == AfterCreateIndex(t, loc[c], code) IN
                /\ indexColumns' = sortedInPlace(t, l.loc, indexColumns)
                /\ Commit(c, syncTable(c, t, StIndexes, l))
    /\ UNCHANGED <<dbmVars, rDb, rTable, rCols, scenario, unitVars, countVars>>

\* ------------------------------------------------------- the environment
\* The backend performs a creation and the answer does not reach the caller:
\* the connection drops (an error without code) or a gateway answers 503.  The
\* object is there afterwards, so the same creation cannot be lost twice.
LostCodes == {0, 503}

TblCreateLost(c) ==
    /\ At(c, "tbl.create")
    /\ rDb /\ ~rTable[key[c]].present
    /\ \E code \in LostCodes :
        /\ rTable' = [rTable EXCEPT ![key[c]] = createdTable(Schema(key[c]))]
        /\ nCreateTable' = [nCreateTable EXCEPT ![key[c]] = Bump(@)]
        /\ Commit(c, syncTable(c, key[c], StTable,
                    AfterCreateTable([loc[c] EXCEPT !.lost = @ \cup {"tbl"}], code)))
    /\ UNCHANGED <<dbmVars, rDb, rCols, rIdx, faults, scenario, indexColumns, unitVars, nCreateCol>>

ColCreateLost(c) ==
    /\ At(c, "col.create")
    /\ LET t == key[c]
           col == ColumnAt(c)
       IN /\ rTable[t].present /\ ~rCols[t][col.key].present
          /\ \E code \in LostCodes :
            /\ rCols' = [rCols EXCEPT ![t][col.key] = createdColumn(col)]
            /\ nCreateCol' = [nCreateCol EXCEPT ![t][col.key] = Bump(@)]
            /\ Commit(c, syncTable(c, t, StColumns,
                        AfterCreateColumn(t, [loc[c] EXCEPT !.lost = @ \cup {col.key}], code)))
    /\ UNCHANGED <<dbmVars, rDb, rTable, rIdx, faults, scenario, indexColumns, unitVars, nCreateTable>>

IdxCreateLost(c) ==
    /\ At(c, "idx.create")
    /\ LET t == key[c]
           index == IndexAt(c)
       IN /\ rTable[t].present /\ ~rIdx[t][index.key].present
          /\ \E code \in LostCodes :
            /\ rIdx' = [rIdx EXCEPT ![t][index.key] = createdIndex(index)]
            /\ LET l == AfterCreateIndex(t, [loc[c] EXCEPT !.lost = @ \cup {index.key}], code) IN
                /\ indexColumns' = sortedInPlace(t, l.loc, indexColumns)
                /\ Commit(c, syncTable(c, t, StIndexes, l))
    /\ UNCHANGED <<dbmVars, rDb, rTable, rCols, faults, scenario, unitVars, countVars>>

\* the backend finishes provisioning a column
Provision(t, k) ==
    /\ MicrotasksDrained
    /\ rCols[t][k].present /\ rCols[t][k].status = "processing"
    /\ \E st \in {"available", "failed"} :
        rCols' = [rCols EXCEPT ![t][k].status = st]
    /\ UNCHANGED <<guardVars, loc, dbmVars, rDb, rTable, rIdx, faults, scenario, indexColumns, unitVars, countVars>>

\* another actor deletes a table, with its columns and indexes
ExternalDrop(t) ==
    /\ MicrotasksDrained
    /\ faults < MaxFaults
    /\ rTable[t].present
    /\ faults' = faults + 1
    /\ rTable' = [rTable EXCEPT ![t] = NoTable]
    /\ rCols' = [rCols EXCEPT ![t] = [k \in AllCols |-> NoCol]]
    /\ rIdx' = [rIdx EXCEPT ![t] = [k \in AllIdx |-> NoIdx]]
    /\ UNCHANGED <<guardVars, loc, dbmVars, rDb, scenario, indexColumns, unitVars, countVars>>

\* another actor deletes an index: the delete of a pass then finds it already gone
IndexGone(t, j) ==
    /\ MicrotasksDrained
    /\ rIdx[t][j].present
    /\ rIdx' = [rIdx EXCEPT ![t][j] = NoIdx]
    /\ UNCHANGED <<guardVars, loc, dbmVars, rDb, rTable, rCols, faults, scenario, indexColumns, unitVars, countVars>>

\* ------------------------------------------------------ withRetry on its own
\* withRetry(operation, maxRetries, initialDelay), called with an operation whose
\* every attempt resolves (200) or rejects with a code (0: an error without a code).
\* codes: what the attempts gave, in order; slept: the delays waited, in order;
\* out: what withRetry gave back, and from which attempt.
WrIdle == [st |-> "idle", variant |-> "", maxRetries |-> 0, initialDelay |-> 0,
           retries |-> 0, delay |-> 0, codes |-> <<>>, slept |-> <<>>,
           out |-> [kind |-> "none", code |-> 0, attempt |-> 0]]

OpCodes == {200, 0, 400, 429, 499, 500, 503, 599, 600}
Delays == {1, DefaultDelay}
\* the two copies of withRetry: common/withRetry (ColumnManager, LazyTable) and
\* utils/withRetry (TableManager, IndexManager)
Variants == {"common", "utils"}

\* utils/withRetry: errorCodes = [429, 501, 502, 503]; errorCodes.includes(code) || !code
IsRetryableUtils(code) == code \in {429, 501, 502, 503} \/ code = 0

\* faulty variant: every rejection is retried while retries are left
retryVerdictAnyError(variant, retries, code) ==
    IF code = 200 THEN "return" ELSE IF retries <= 0 THEN "throw" ELSE "sleep"

\* faulty variant: the retries left are not looked at
retryVerdictNoBudget(variant, retries, code) ==
    IF code = 200 THEN "return"
    ELSE IF variant = "common" /\ IsRetryable(code) THEN "sleep"
    ELSE IF variant = "utils" /\ IsRetryableUtils(code) THEN "sleep"
    ELSE "throw"

\* try { return await operation() } catch (error) { ... }: what one attempt leads to
retryVerdict(variant, retries, code) ==
    IF code = 200 THEN "return"
    ELSE IF retries <= 0 THEN "throw"
    ELSE IF variant = "common" /\ ~IsRetryable(code) THEN "throw"
    ELSE IF variant = "utils" /\ ~IsRetryableUtils(code) THEN "throw"
    ELSE "sleep"

\* faulty variant: the delay stays what it was
nextDelaySame(delay) == delay

\* withRetry(operation, retries - 1, delay * 2)
nextDelay(delay) == delay * 2

\* withRetry is called: the first operation() is under way
RetryStart ==
    /\ wr.st = "idle"
    /\ \E v \in Variants, m \in 0..RetryBudget, d \in Delays :
        wr' = [WrIdle EXCEPT !.st = "calling", !.variant = v, !.maxRetries = m,
                             !.initialDelay = d, !.retries = m, !.delay = d]
    /\ UNCHANGED <<guardVars, loc, dbmVars, remoteVars, faults, scenario, indexColumns, countVars, wc>>

\* operation() settles: withRetry returns its value, throws its error, or sleeps
RetryAnswer ==
    /\ wr.st = "calling"
    /\ \E code \in OpCodes :
        LET v == retryVerdict(wr.variant, wr.retries, code)
            n == Len(wr.codes) + 1
            w == [wr EXCEPT !.codes = Append(@, code)]
        IN  wr' = CASE v = "return" ->
                        [w EXCEPT !.st = "returned",
                                  !.out = [kind |-> "value", code |-> code, attempt |-> n]]
                    [] v = "throw" ->
                        [w EXCEPT !.st = "thrown",
                                  !.out = [kind |-> "error", code |-> code, attempt |-> n]]
                    [] OTHER ->
                        [w EXCEPT !.st = "sleeping", !.slept = Append(@, wr.delay)]
    /\ UNCHANGED <<guardVars, loc, dbmVars, remoteVars, faults, scenario, indexColumns, countVars, wc>>

\* the timer fires: return withRetry(operation, retries - 1, delay * 2)
RetryWake ==
    /\ wr.st = "sleeping"
    /\ wr' = [wr EXCEPT !.st = "calling", !.retries = @ - 1, !.delay = nextDelay(@)]
    /\ UNCHANGED <<guardVars, loc, dbmVars, remoteVars, faults, scenario, indexColumns, countVars, wc>>

\* -------------------------------------------------- waitForColumn on its own
\* waitForColumn(databases, dbId, tableId, key) against a backend that may answer
\* every getColumn in any way.  reads: getColumn calls issued; last: the last answer;
\* terminal: a read reported available or failed; fatalAt: the read that reported
\* failed or met an error other than 404 (0: none); named: the column the error names.
WcIdle == [st |-> "idle", col |-> "", attempts |-> 0, reads |-> 0, last |-> <<0, "">>,
           err |-> "none", named |-> "", terminal |-> FALSE, fatalAt |-> 0]

PollAnswers == {<<200, "available">>, <<200, "processing">>, <<200, "failed">>,
                <<200, "stuck">>, <<404, "">>, <<0, "">>, <<429, "">>, <<503, "">>}

\* waitForColumn is called: attempts = 0, and the loop is entered if it may
WaitStart ==
    /\ wc.st = "idle"
    /\ \E k \in AllCols :
        wc' = IF loopVerdict(0) = "read"
              THEN [WcIdle EXCEPT !.st = "reading", !.col = k, !.reads = 1]
              ELSE [WcIdle EXCEPT !.st = "thrown", !.col = k, !.err = "Timeout", !.named = k]
    /\ UNCHANGED <<guardVars, loc, dbmVars, remoteVars, faults, scenario, indexColumns, countVars, wr>>

\* getColumn settles
WaitAnswer ==
    /\ wc.st = "reading"
    /\ \E a \in PollAnswers :
        LET v == pollVerdict(a[1], a[2])
            fatal == (a[1] = 200 /\ a[2] = "failed") \/ a[1] \notin {200, 404}
            w == [wc EXCEPT !.last = a,
                            !.terminal = @ \/ (a[1] = 200 /\ a[2] \in {"available", "failed"}),
                            !.fatalAt = IF @ = 0 /\ fatal THEN wc.reads ELSE @]
        IN  wc' = CASE v = "return" -> [w EXCEPT !.st = "returned"]
                    [] v = "throw" -> [w EXCEPT !.st = "thrown", !.err = "Appwrite"]
                    [] OTHER -> [w EXCEPT !.st = "sleeping"]
    /\ UNCHANGED <<guardVars, loc, dbmVars, remoteVars, faults, scenario, indexColumns, countVars, wr>>

\* sleep(200) is over: attempts++, and the loop condition is tested again
WaitWake ==
    /\ wc.st = "sleeping"
    /\ wc' = IF loopVerdict(wc.attempts + 1) = "read"
              THEN [wc EXCEPT !.st = "reading", !.attempts = @ + 1, !.reads = @ + 1]
              ELSE [wc EXCEPT !.st = "thrown", !.attempts = @ + 1,
                              !.err = "Timeout", !.named = wc.col]
    /\ UNCHANGED <<guardVars, loc, dbmVars, remoteVars, faults, scenario, indexColumns, countVars, wr>>

\* ------------------------------------------------------------ initial state
Scenarios == {"fresh", "drift", "conflict"}

AvailCol(type, size, els) ==
    [present |-> TRUE, type |-> type, array |-> FALSE, size |-> size,
     elements |-> els, status |-> "available"]

\* "fresh": nothing exists.  "drift": everything exists and differs from its
\* declaration in what a pass repairs.  "conflict": the permissions are the declared
\* ones in another order (t1, t3, t4) or others (t5), and a column is in the way.
\* t2 and t6 declare neither permissions nor flags; the remote t2 has none, the
\* remote t6 has permissions and, in "conflict", row security.
InitTable(sc, t) ==
    CASE sc = "fresh" -> NoTable
      [] sc = "drift" ->
            [present |-> TRUE, permissions |-> IF t = "t2" THEN <<>> ELSE <<1>>,
             rowSecurity |-> FALSE, enabled |-> TRUE]
      [] OTHER ->
            [present |-> TRUE, permissions |-> IF t = "t2" THEN <<>> ELSE <<1, 2>>,
             rowSecurity |-> (t # "t2"), enabled |-> (t # "t3")]

\* t1, t3: in "drift" column a is shorter than declared and b lacks an element, in
\* "conflict" a has another kind.  t4: in "conflict" a is as declared, and b has
\* failed and has the declared elements and one more, in another order.  t5: in "drift" the relationship a is a string remotely and b is
\* longer than declared, in "conflict" a is missing and b is an array.
InitCols(sc, t) ==
    CASE sc = "fresh" \/ t \in {"t2", "t6"} -> [k \in AllCols |-> NoCol]
      [] sc = "drift" /\ t = "t5" ->
            [k \in AllCols |->
                IF k = "a" THEN AvailCol("string", 20, <<>>)
                ELSE AvailCol("string", 100, <<>>)]
      [] sc = "conflict" /\ t = "t5" ->
            [k \in AllCols |->
                IF k = "a" THEN NoCol
                ELSE [AvailCol("string", 50, <<>>) EXCEPT !.array = TRUE]]
      [] sc = "conflict" /\ t = "t4" ->
            [k \in AllCols |->
                IF k = "a" THEN AvailCol("string", 100, <<>>)
                ELSE [AvailCol("enum", 0, <<"y", "x", "z">>) EXCEPT !.status = "failed"]]
      [] sc = "drift" ->
            [k \in AllCols |->
                IF k = "a" THEN AvailCol("string", 50, <<>>)
                ELSE AvailCol("enum", 0, <<"x", "z">>)]
      [] OTHER -> [k \in AllCols |->
                IF k = "a" THEN AvailCol("integer", 0, <<>>) ELSE NoCol]

\* in "drift" the index of t3 is stuck; of t4, i1 has another type and i2 is over
\* another column; in "conflict" i1 of t4 is as declared with its columns in another
\* order, and i2 has failed as its column has
InitIdx(sc, t) ==
    [i \in AllIdx |->
        IF sc = "drift" /\ t = "t3"
        THEN [present |-> TRUE, type |-> "key", columns |-> <<"a">>, status |-> "stuck"]
        ELSE IF sc = "drift" /\ t = "t4"
        THEN IF i = "i1"
             THEN [present |-> TRUE, type |-> "unique", columns |-> <<"b", "a">>,
                   status |-> "available"]
             ELSE [present |-> TRUE, type |-> "key", columns |-> <<"a">>, status |-> "available"]
        ELSE IF sc = "conflict" /\ t = "t4"
        THEN IF i = "i1"
             THEN [present |-> TRUE, type |-> "key", columns |-> <<"a", "b">>,
                   status |-> "available"]
             ELSE [present |-> TRUE, type |-> "key", columns |-> <<"b">>, status |-> "failed"]
        ELSE NoIdx]

\* the state after the module is loaded, with f disturbances already behind
InitWith(f) ==
    /\ verifiedTables = {}
    /\ pendingSyncs = [k \in Keys |-> NoOne]
    /\ promise = [c \in Callers |-> "none"]
    /\ perr = [c \in Callers |-> NoErr]
    /\ pc = [c \in Callers |-> "idle"]
    /\ key = [c \in Callers |-> "t1"]
    /\ awaiting = [c \in Callers |-> NoOne]
    /\ retried = [c \in Callers |-> 0]
    /\ result = [c \in Callers |-> NoErr]
    /\ loc = [c \in Callers |-> NoLoc]
    /\ isConnectionVerified = FALSE
    /\ verifiedDatabases = {}
    /\ scenario \in Scenarios
    /\ rDb = (scenario # "fresh")
    /\ rTable = [t \in Tables |-> InitTable(scenario, t)]
    /\ rCols = [t \in Tables |-> InitCols(scenario, t)]
    /\ rIdx = [t \in Tables |-> InitIdx(scenario, t)]
    /\ indexColumns = [t \in Tables |-> declaredColumns(t)]
    /\ faults = f
    /\ shortCut = [c \in Callers |-> FALSE]
    /\ rowCall = [c \in Callers |-> FALSE]
    /\ led = [c \in Callers |-> 0]
    /\ okRuns = [t \in Tables |-> 0]
    /\ failRuns = [t \in Tables |-> 0]
    /\ nCreateTable = [t \in Tables |-> 0]
    /\ nCreateCol = [t \in Tables |-> [k \in AllCols |-> 0]]
    /\ wr = WrIdle
    /\ wc = WcIdle

Init == InitWith(0)

\* the steps of the Database, Table and Columns stages
PassStep(c) ==
    \/ DbListResp(c)
    \/ DbGetResp(c)
    \/ DbCreateResp(c)
    \/ TblGetResp(c)
    \/ TblUpdateResp(c)
    \/ TblCreateResp(c)
    \/ ColListResp(c)
    \/ ColCreateResp(c)
    \/ ColUpdateSizeResp(c)
    \/ ColUpdateEnumResp(c)

\* the steps of the Indexes stage
IndexStep(c) ==
    \/ IdxListResp(c)
    \/ IdxDeleteResp(c)
    \/ \E k \in AllCols : IdxPollResp(c, k)
    \/ IdxCreateResp(c)

\* Concurrent operations on the tables t1 and t2.  They declare no index, so no
\* step reads a column's provisioning status and Provision is left out.
Next ==
    \/ \E c \in Callers, t \in GuardTables : Invoke(c, t)
    \/ \E c \in Callers : FollowerResume(c)
    \/ \E c \in Callers : LeaderReturn(c)
    \/ \E c \in Callers : PassStep(c)
    \/ ExternalDrop("t1")

Spec == Init /\ [][Next]_vars

\* Operations on the table t3, whose declaration has columns and an index.
NextPass ==
    \/ \E c \in 1..PassCallers, t \in PassTables : Invoke(c, t)
    \/ \E c \in Callers : FollowerResume(c)
    \/ \E c \in Callers : LeaderReturn(c)
    \/ \E c \in Callers : PassStep(c)
    \/ \E c \in Callers : IndexStep(c)
    \/ \E t \in PassTables, k \in AllCols : Provision(t, k)
    \/ \E t \in PassTables : ExternalDrop(t)

SpecPass == Init /\ [][NextPass]_vars

\* One operation on the table of SpecPass against a backend that injects errors
\* and may perform a creation and lose its answer; no other actor deletes the
\* table.
NextLost ==
    \/ \E t \in PassTables : Invoke(1, t)
    \/ \E c \in Callers : LeaderReturn(c)
    \/ \E c \in Callers : PassStep(c)
    \/ \E c \in Callers : IndexStep(c)
    \/ \E t \in PassTables, k \in AllCols : Provision(t, k)
    \/ \E c \in Callers : TblCreateLost(c)
    \/ \E c \in Callers : ColCreateLost(c)
    \/ \E c \in Callers : IdxCreateLost(c)

SpecLost == Init /\ [][NextLost]_vars

\* One operation on the table t4, whose declaration has an index over two columns
\* and a second index, against a backend that answers without injected errors.
InitQuiet == InitWith(MaxFaults)

NextIdx ==
    \/ \E t \in IdxTables : Invoke(1, t)
    \/ \E c \in Callers : LeaderReturn(c)
    \/ \E c \in Callers : PassStep(c)
    \/ \E c \in Callers : IndexStep(c)
    \/ \E t \in IdxTables, k \in AllCols : Provision(t, k)
    \/ \E t \in IdxTables, j \in AllIdx : IndexGone(t, j)

SpecIdx == InitQuiet /\ [][NextIdx]_vars

\* One operation on the table t3 or t5, whose columns meet every case of
\* reconcile, against a backend that answers without injected errors.
NextCols ==
    \/ \E t \in ColTables : Invoke(1, t)
    \/ \E c \in Callers : LeaderReturn(c)
    \/ \E c \in Callers : PassStep(c)
    \/ \E c \in Callers : IndexStep(c)
    \/ \E t \in ColTables, k \in AllCols : Provision(t, k)

SpecCols == InitQuiet /\ [][NextCols]_vars

\* Concurrent operations on the one table t1, with no other actor on the backend.
NextKey ==
    \/ \E c \in Callers : Invoke(c, "t1")
    \/ \E c \in Callers : FollowerResume(c)
    \/ \E c \in Callers : LeaderReturn(c)
    \/ \E c \in Callers : PassStep(c)

\* The event loop runs every continuation that is ready, and the backend answers
\* every call that is outstanding.
Fairness ==
    \A c \in Callers :
        /\ WF_vars(FollowerResume(c))
        /\ WF_vars(LeaderReturn(c))
        /\ WF_vars(PassStep(c))

SpecKey == Init /\ [][NextKey]_vars /\ Fairness

\* withRetry alone, for every variant, budget, delay and sequence of outcomes
NextRetry == RetryStart \/ RetryAnswer \/ RetryWake

SpecRetry == Init /\ [][NextRetry]_vars

\* waitForColumn alone, for every sequence of answers
NextWait == WaitStart \/ WaitAnswer \/ WaitWake

SpecWait == Init /\ [][NextWait]_vars

\* ================================================================= claims
Leaders(t) == {c \in Callers : pc[c] = "sync" /\ key[c] = t}
Failed(c) == result[c].type \notin {"none", "ok"}

\* calls issued = calls answered + calls outstanding
CreateTableCalls(t) ==
    nCreateTable[t] + Cardinality({c \in Leaders(t) : loc[c].at = "tbl.create"})
CreateColumnCalls(t, k) ==
    nCreateCol[t][k]
    + Cardinality({c \in Leaders(t) : loc[c].at = "col.create" /\ ColumnAt(c).key = k})
DeclaredCols(t) == {Schema(t).columns[n].key : n \in DOMAIN Schema(t).columns}

\* C1: for every key at most one syncTable execution is in flight at any instant,
\* and the caller running it is the one registered in pendingSyncs: the check and
\* the registration are one step, so two callers never both lead the same key.
C1_SingleLeader ==
    \A t \in Tables :
        /\ Cardinality(Leaders(t)) <= 1
        /\ \A c \in Leaders(t) : pendingSyncs[KeyOf(t)] = c

\* C1 witness: a caller leads while another caller of the same key waits behind it
C1_Witness ==
    \E c, d \in Callers :
        /\ c # d /\ key[c] = key[d]
        /\ pc[c] = "sync" /\ pc[d] = "waiting" /\ awaiting[d] = c

\* C2: with the table and its columns absent at the start and a backend that
\* injects no error and loses no table, any number of concurrent operations on one
\* key issue at most one createTable call and one create call per declared column,
\* and exactly one of each once the key is verified.
C2_IdempotentCreation ==
    \A t \in GuardTables :
        (scenario = "fresh" /\ faults = 0) =>
            /\ CreateTableCalls(t) <= 1
            /\ \A k \in DeclaredCols(t) : CreateColumnCalls(t, k) <= 1
            /\ KeyOf(t) \in verifiedTables =>
                    /\ CreateTableCalls(t) = 1
                    /\ \A k \in DeclaredCols(t) : CreateColumnCalls(t, k) = 1

\* C2 witness: three operations on t1 have all returned and each create call was issued once
C2_Witness ==
    /\ scenario = "fresh" /\ faults = 0
    /\ Cardinality({c \in Callers : key[c] = "t1" /\ pc[c] = "done" /\ result[c] = OkRes}) >= 3
    /\ Cardinality({c \in Callers : key[c] = "t1" /\ awaiting[c] # NoOne}) >= 2
    /\ CreateTableCalls("t1") = 1
    /\ \A k \in DeclaredCols("t1") : CreateColumnCalls("t1", k) = 1

\* C3: once a synchronisation of a key has succeeded, every later prepare call for
\* that key returns success in the very step that enters it, without leading,
\* waiting or issuing a remote call, whatever the remote state is by then.
C3_VerifiedShortCircuit ==
    [][\A c \in Callers :
         (pc[c] = "idle" /\ pc'[c] # "idle" /\ okRuns[key'[c]] > 0) =>
            /\ pc'[c] = "done" /\ result'[c] = OkRes
            /\ led'[c] = 0 /\ loc'[c] = NoLoc /\ promise'[c] = "none"
            /\ pendingSyncs' = pendingSyncs
            /\ remoteVars' = remoteVars]_vars

\* C3 witness: a call was answered from the cache although the table has been deleted remotely
C3_Witness ==
    \E c \in Callers :
        /\ shortCut[c] /\ pc[c] = "done" /\ result[c] = OkRes
        /\ ~rTable[key[c]].present

\* C4: verifiedTables only grows; a key enters it only in a step in which a
\* syncTable execution for that key ends without error; a step in which one ends
\* in an error leaves the set unchanged.
C4_VerifiedMonotonic ==
    [][/\ verifiedTables \subseteq verifiedTables'
       /\ \A t \in Tables :
            /\ (KeyOf(t) \in verifiedTables' \ verifiedTables) => okRuns'[t] > okRuns[t]
            /\ (failRuns'[t] # failRuns[t]) => verifiedTables' = verifiedTables]_vars

\* C4 witness: a synchronisation of a key failed, a later one succeeded and verified it
C4_Witness ==
    \E t \in Tables : failRuns[t] > 0 /\ okRuns[t] > 0 /\ KeyOf(t) \in verifiedTables

\* C5: pendingSyncs holds an entry for a key exactly while a leader's syncTable for
\* that key is running, the entry is that leader's still pending promise, and no
\* entry is left behind by a synchronisation that ended, in success or in failure.
C5_PendingWhileRunning ==
    \A t \in Tables :
        /\ (pendingSyncs[KeyOf(t)] # NoOne) <=> (Leaders(t) # {})
        /\ pendingSyncs[KeyOf(t)] # NoOne =>
                /\ pendingSyncs[KeyOf(t)] \in Leaders(t)
                /\ promise[pendingSyncs[KeyOf(t)]] = "pending"
        /\ \A c \in Callers : promise[c] \in {"fulfilled", "rejected"} =>
                pendingSyncs[KeyOf(key[c])] # c

\* C5 witness: after a failed synchronisation removed its entry, a new leader registered one
C5_Witness ==
    \E t \in Tables, c \in Callers :
        /\ failRuns[t] > 0 /\ pendingSyncs[KeyOf(t)] = c /\ retried[c] > 0

\* C6: at every suspension point no key is both verified and pending, and once a
\* synchronisation of a key has succeeded the key is verified (never "neither"), so
\* no further leader is elected for it: exactly one execution succeeded, none runs.
C6_VerifiedXorPending ==
    \A t \in Tables :
        /\ ~(KeyOf(t) \in verifiedTables /\ pendingSyncs[KeyOf(t)] # NoOne)
        /\ okRuns[t] > 0 =>
                /\ KeyOf(t) \in verifiedTables
                /\ Leaders(t) = {}
                /\ okRuns[t] = 1

\* C6 witness: a follower has resumed after its leader's success and found the key verified
C6_Witness ==
    \E t \in Tables, c \in Callers :
        /\ okRuns[t] = 1 /\ key[c] = t /\ KeyOf(t) \in verifiedTables
        /\ pendingSyncs[KeyOf(t)] = NoOne
        /\ awaiting[c] # NoOne /\ pc[c] = "done" /\ failRuns[t] = 0

\* C7: a follower leaves its wait only after the promise it awaited is settled; a
\* follower that returns without ever leading returns success, its leader's
\* promise is fulfilled, its key is verified and it issued no remote call.
C7_FollowerAfterLeader ==
    \A c \in Callers :
        /\ (awaiting[c] # NoOne /\ pc[c] # "waiting") => promise[awaiting[c]] # "pending"
        /\ (awaiting[c] # NoOne /\ pc[c] = "done" /\ led[c] = 0) =>
                /\ result[c] = OkRes
                /\ promise[awaiting[c]] = "fulfilled"
                /\ KeyOf(key[c]) \in verifiedTables
                /\ loc[c] = NoLoc

\* C7 witness: a follower returned success behind a leader whose pass went through remote calls
C7_Witness ==
    \E c \in Callers :
        /\ awaiting[c] # NoOne /\ pc[c] = "done" /\ led[c] = 0 /\ retried[c] = 0
        /\ loc[awaiting[c]].trace # <<>>

\* C8 (as claimed): a caller re-enters prepare at most once.
C8_RetryOnce == \A c \in Callers : retried[c] <= 1

\* C8 (amended): a caller re-enters prepare once for each failed synchronisation it
\* waited behind, so at most as often as synchronisations of its key have failed
\* and at most NCallers - 1 times, and it leads at most once.
C8_RetryPerFailure ==
    \A c \in Callers :
        /\ retried[c] <= failRuns[key[c]]
        /\ retried[c] <= NCallers - 1
        /\ led[c] <= 1

\* C8 witness: a caller re-entered prepare twice
C8_Witness == \E c \in Callers : retried[c] = 2

\* C9: a prepare call that ends in an error ends in the error of a syncTable
\* execution the same caller led; a follower never receives its leader's error.
C9_OwnErrorOnly ==
    \A c \in Callers :
        Failed(c) => /\ result[c].by = c
                     /\ led[c] >= 1
                     /\ result[c] = perr[c]

\* C9 witness: a follower saw its leader fail, led itself and failed with its own error
C9_Witness ==
    \E c \in Callers :
        /\ Failed(c) /\ awaiting[c] # NoOne
        /\ promise[awaiting[c]] = "rejected" /\ perr[awaiting[c]].by = awaiting[c]

\* C10: within one pass the remote calls come in stage order Database, Table,
\* Columns, Indexes; a call of a stage is issued only after every earlier stage has
\* returned; once a stage has thrown, no call of a later stage is issued and the
\* pass has ended with an error naming that stage.
C10_StageOrder ==
    \A c \in Callers :
        LET l == loc[c] IN
        /\ \A m, n \in DOMAIN l.trace : m < n => l.trace[m] < l.trace[n]
        /\ \A n \in DOMAIN l.trace : \A s \in 1..(l.trace[n] - 1) : s \in l.done
        /\ l.failed # 0 =>
                /\ \A n \in DOMAIN l.trace : l.trace[n] <= l.failed
                /\ l.failed \notin l.done
                /\ pc[c] # "sync"
                /\ perr[c].stage = l.failed

\* C10 witness: one pass threw in the Columns stage, another went through to the Indexes stage
C10_Witness ==
    \E c, d \in Callers :
        /\ loc[c].failed = StColumns /\ loc[c].trace # <<>>
        /\ loc[d].failed = 0 /\ pc[d] = "done" /\ StIndexes \in Range(loc[d].trace)

\* C11: every error that leaves syncTable is a Config error that names the stage
\* that threw and carries, as its cause, the error that stage threw; whatever a
\* stage throws, the promise of the pass is rejected with such an error.
C11_ConfigWrapsStage ==
    \A c \in Callers :
        /\ promise[c] = "rejected" =>
                /\ perr[c].type = "Config"
                /\ perr[c].stage \in StDatabase..StIndexes
                /\ perr[c].stage = loc[c].failed
                /\ perr[c].cause = loc[c].thrown /\ perr[c].cause # "none"
        /\ (loc[c].failed # 0 /\ pc[c] # "sync") => promise[c] = "rejected"

\* C11 witness: one pass failed in the Database stage, another in the Columns stage on a Validation error
C11_Witness ==
    \E c, d \in Callers :
        /\ promise[c] = "rejected" /\ perr[c].stage = StDatabase
        /\ promise[d] = "rejected" /\ perr[d].stage = StColumns /\ perr[d].cause = "Validation"

\* C12 (as claimed): when a declared column conflicts in kind with the remote
\* column, the caller of the operation receives an error of kind Validation.
C12_ValidationVerbatim ==
    \A c \in Callers :
        (Failed(c) /\ loc[c].thrown = "Validation") => result[c].type = "Validation"

RemoteAsDeclared(t, index) == rIdx[t][index.key] = createdIndex(index)
InFlight(c, label) == pc[c] = "sync" /\ loc[c].at = label

\* C13: every pass, and so the pass after a failed one, goes through the stages
\* from Database on; a create call is in flight only for a table or column that is
\* absent remotely and for an index that is not there as declared; an update or
\* delete call is in flight only for something that differs from its declaration.
C13_SafeToRepeat ==
    \A c \in Callers :
        LET t == key[c]
            l == loc[c]
        IN  pc[c] = "sync" =>
            /\ l.done = 1..(StageOf(l.at) - 1)
            /\ InFlight(c, "tbl.create") => ~rTable[t].present
            /\ InFlight(c, "tbl.update") =>
                    (~rTable[t].present \/ needsUpdate(Schema(t), rTable[t]))
            /\ InFlight(c, "col.create") => ~rCols[t][ColumnAt(c).key].present
            /\ InFlight(c, "col.updateSize") =>
                    (~rCols[t][ColumnAt(c).key].present
                     \/ rCols[t][ColumnAt(c).key].size < ColumnAt(c).size)
            /\ InFlight(c, "col.updateEnum") =>
                    (~rCols[t][ColumnAt(c).key].present
                     \/ newElements(ColumnAt(c).elements,
                                    rCols[t][ColumnAt(c).key].elements) # <<>>)
            /\ InFlight(c, "idx.delete") => ~RemoteAsDeclared(t, IndexAt(c))
            /\ InFlight(c, "idx.create") => ~RemoteAsDeclared(t, IndexAt(c))

\* C13 witness: the pass after a failed one found the table the failed pass had
\* created, did not create it again, and is creating a column
C13_Witness ==
    \E c \in Callers :
        /\ scenario = "fresh" /\ failRuns[key[c]] > 0 /\ retried[c] > 0
        /\ InFlight(c, "col.create") /\ loc[c].done = {StDatabase, StTable}
        /\ rTable[key[c]].present /\ nCreateTable[key[c]] = 1

ClaimRetryable(code) == code = 429 \/ code \in 500..599 \/ code = 0
Invocations == Len(wr.codes) + (IF wr.st = "calling" THEN 1 ELSE 0)

\* C14: an attempt of withRetry is followed by another only if it failed with 429,
\* a code in 500..599 or no code; a failure with any other code is the last attempt,
\* and withRetry throws that error at once, without having slept for it.
C14_RetryOnlyTransient ==
    \A n \in DOMAIN wr.codes :
        /\ n < Len(wr.codes) => ClaimRetryable(wr.codes[n])
        /\ (wr.codes[n] # 200 /\ ~ClaimRetryable(wr.codes[n])) =>
                /\ n = Len(wr.codes) /\ wr.st = "thrown"
                /\ wr.out = [kind |-> "error", code |-> wr.codes[n], attempt |-> n]
                /\ Len(wr.slept) = n - 1

\* C14 witness: a 503 was retried, the 400 that followed was thrown at once, with retries left
C14_Witness ==
    /\ wr.codes = <<503, 400>> /\ wr.st = "thrown" /\ wr.retries > 0 /\ wr.out.code = 400

\* C15: withRetry invokes the operation at most maxRetries + 1 times; when it
\* returns, it returns what the first attempt that succeeded gave; when it throws,
\* it throws the error of the last attempt as it is, and if every attempt failed
\* with an error it retries, that is after exactly maxRetries + 1 attempts.
C15_BoundedAttempts ==
    /\ Invocations <= wr.maxRetries + 1
    /\ wr.st = "returned" =>
            /\ wr.out = [kind |-> "value", code |-> 200, attempt |-> Len(wr.codes)]
            /\ \A n \in DOMAIN wr.codes : wr.codes[n] = 200 <=> n = Len(wr.codes)
    /\ wr.st = "thrown" =>
            /\ wr.out = [kind |-> "error", code |-> wr.codes[Len(wr.codes)],
                         attempt |-> Len(wr.codes)]
            /\ (\A n \in DOMAIN wr.codes :
                    retryVerdict(wr.variant, 1, wr.codes[n]) = "sleep")
                => Len(wr.codes) = wr.maxRetries + 1

\* C15 witness: four attempts failed with errors that are retried, and the last one's error was thrown
C15_Witness ==
    /\ wr.st = "thrown" /\ wr.maxRetries = 3 /\ wr.codes = <<429, 503, 0, 429>>
    /\ wr.out.attempt = 4

\* C16: the delay before the k-th retry is initialDelay * 2^(k-1); an operation
\* that fails twice with 429 and then succeeds makes withRetry return after three
\* attempts, having waited initialDelay and then 2 * initialDelay.
C16_DelayDoubles ==
    /\ \A k \in DOMAIN wr.slept : wr.slept[k] = wr.initialDelay * 2 ^ (k - 1)
    /\ Len(wr.slept) = Len(wr.codes) - (IF wr.st = "sleeping" \/ wr.st = "calling" THEN 0 ELSE 1)
       \/ wr.st = "idle"
    /\ wr.codes = <<429, 429, 200>> =>
            /\ wr.st = "returned" /\ wr.out.attempt = 3
            /\ wr.slept = <<wr.initialDelay, 2 * wr.initialDelay>>

\* C16 witness: 429, 429, then success, with the default delay
C16_Witness ==
    /\ wr.codes = <<429, 429, 200>> /\ wr.initialDelay = DefaultDelay
    /\ wr.slept = <<500, 1000>>

\* C17: waitForColumn issues at most 30 reads and each turn of its loop uses up one
\* of 30 attempts; it returns exactly when a read reports available; if no read
\* reported available or failed and none met an error other than not-found, it ends
\* after the 30th read with a Timeout error that names the column.
C17_WaitBounded ==
    /\ wc.reads <= maxAttempts /\ wc.attempts <= maxAttempts
    /\ wc.st \in {"reading", "sleeping"} => wc.attempts = wc.reads - 1
    /\ wc.st = "returned" <=> wc.last = <<200, "available">>
    /\ (wc.st = "thrown" /\ ~wc.terminal /\ wc.fatalAt = 0) =>
            /\ wc.err = "Timeout" /\ wc.named = wc.col
            /\ wc.reads = maxAttempts
    /\ wc.err = "Timeout" => (wc.st = "thrown" /\ ~wc.terminal /\ wc.fatalAt = 0)

\* C17 witness: thirty reads, the last one not-found, and the wait timed out
C17_Witness ==
    /\ wc.st = "thrown" /\ wc.err = "Timeout" /\ wc.reads = 30 /\ wc.last = <<404, "">>

\* C18: after a not-found answer the wait is not over, unless that was the last
\* attempt; a read that reports failed or meets another error ends the wait at once
\* with an Appwrite error, and the wait issues no read after it.
C18_NotFoundTransient ==
    /\ wc.last = <<404, "">> =>
            \/ wc.st \in {"sleeping", "reading"}
            \/ wc.st = "thrown" /\ wc.err = "Timeout" /\ wc.reads = maxAttempts
    /\ wc.fatalAt # 0 =>
            /\ wc.st = "thrown" /\ wc.err = "Appwrite"
            /\ wc.reads = wc.fatalAt

\* C18 witness: the wait went on after not-found answers and ended on a 429
C18_Witness ==
    /\ wc.st = "thrown" /\ wc.err = "Appwrite" /\ wc.last = <<429, "">> /\ wc.fatalAt = 3

\* C19: a create-index call is in flight only if, for every column of that index,
\* the last read of the wait of this pass reported the column available.
C19_CreateAfterAvailable ==
    \A c \in Callers :
        InFlight(c, "idx.create") =>
            \A k \in Range(IndexAt(c).columns) :
                /\ loc[c].seen[k].status = "available"
                /\ loc[c].seen[k].n >= 1

\* C19 witness: the two-column index is being created after both columns were read more than once
C19_Witness ==
    \E c \in Callers :
        /\ InFlight(c, "idx.create") /\ IndexAt(c).key = "i1"
        /\ loc[c].seen["a"].n > 1 /\ loc[c].seen["b"].n > 1

Declared(t) == Schema(t).indexes

\* C20: no create-index call is in flight for an index whose wait failed; the
\* indexes are taken up in declared order, and all of them by the time the pass
\* has ended well; a pass in which a wait failed has not failed in any stage.
C20_SkipIndexOnFailedWait ==
    \A c \in Callers :
        LET l == loc[c]
            ixs == Declared(key[c])
        IN  /\ InFlight(c, "idx.create") => IndexAt(c).key \notin l.waitFailed
            /\ \A m, n \in DOMAIN ixs :
                    (m < n /\ l.ix[ixs[n].key] # "none") => l.ix[ixs[m].key] # "none"
            /\ (pc[c] \in {"settled", "done"} /\ promise[c] = "fulfilled") =>
                    \A n \in DOMAIN ixs : l.ix[ixs[n].key] # "none"
            /\ l.waitFailed # {} =>
                    /\ l.failed = 0
                    /\ pc[c] \in {"settled", "done"} => promise[c] = "fulfilled"

\* C20 witness: the wait for the first index failed, the second index was created, the pass ended well
C20_Witness ==
    \E c \in Callers :
        /\ pc[c] = "done" /\ result[c] = OkRes /\ scenario = "fresh"
        /\ loc[c].waitFailed = {"i1"}
        /\ ~rIdx[key[c]]["i1"].present /\ rIdx[key[c]]["i2"].present

\* ------------------------------------------------------------------- C21
\* what listIndexes gave the pass of c for a declared index
Found(c, index) == loc[c].idxs[index.key]

\* a remote index is a ghost when its status is failed or stuck, and drifted when
\* its kind or its set of columns, in whatever order, is not the declared one
GhostOrDrifted(index, remote) ==
    \/ remote.status \in {"failed", "stuck"}
    \/ remote.type # index.type
    \/ Range(remote.columns) # Range(index.columns)

\* the pass of c has dealt with its n-th declared index
PastIndex(c, n) ==
    \/ StIndexes \in loc[c].done
    \/ /\ pc[c] = "sync"
       /\ loc[c].at \in {"idx.delete", "idx.wait", "idx.create"}
       /\ loc[c].i > n

\* C21 as stated: for a declared index that exists remotely, the pass issues a
\* delete followed by a create if and only if the remote index is a ghost or has
\* drifted, and issues no call for it otherwise.
C21_RecreateIffGhostOrDrifted ==
    \A c \in Callers : pc[c] # "idle" =>
        \A n \in DOMAIN Schema(key[c]).indexes :
            LET index == Schema(key[c]).indexes[n]
                remote == Found(c, index)
                deleted == loc[c].del[index.key] # "none"
                created == index.key \in loc[c].asked
            IN  remote.present =>
                /\ PastIndex(c, n) => ((deleted /\ created) <=> GhostOrDrifted(index, remote))
                /\ ~GhostOrDrifted(index, remote) => ~deleted /\ ~created

\* C21 amended: for a declared index that exists remotely, the pass issues a delete
\* if and only if the remote index is a ghost or has drifted (kind, or set of
\* columns in whatever order); the create is issued only after that delete has been
\* answered, whatever it answered, not-found included, and only if the wait for
\* the index's columns did not fail: a ghost or drifted index whose wait fails has
\* been deleted and is not created again.  A healthy index gets no call.
C21_DeleteThenCreateIfReady ==
    \A c \in Callers : pc[c] # "idle" =>
        \A n \in DOMAIN Schema(key[c]).indexes :
            LET index == Schema(key[c]).indexes[n]
                remote == Found(c, index)
                deleted == loc[c].del[index.key] # "none"
                created == index.key \in loc[c].asked
            IN  remote.present =>
                /\ PastIndex(c, n) => (deleted <=> GhostOrDrifted(index, remote))
                /\ PastIndex(c, n) =>
                        (created <=> (GhostOrDrifted(index, remote)
                                      /\ index.key \notin loc[c].waitFailed))
                /\ created => loc[c].del[index.key] \in {"ok", "notfound", "error"}
                /\ ~GhostOrDrifted(index, remote) =>
                        ~deleted /\ ~created /\ loc[c].ix[index.key] # "wait"

\* a drifted index was found, its delete answered not-found, and its create was issued
C21_Witness ==
    \E c \in Callers : \E n \in DOMAIN Schema(key[c]).indexes :
        LET index == Schema(key[c]).indexes[n] IN
        /\ pc[c] # "idle"
        /\ Found(c, index).present
        /\ ~isGhost(Found(c, index))
        /\ loc[c].del[index.key] = "notfound"
        /\ index.key \in loc[c].asked

\* ------------------------------------------------------------------- C22
\* the connectivity read of c is answered in this step and verifyConnection throws
ReadFailed(c) == InFlight(c, "db.list") /\ pc'[c] = "settled"

\* the connectivity read of c is answered in this step and the pass goes on
ReadSucceeded(c) == InFlight(c, "db.list") /\ pc'[c] = "sync" /\ loc'[c].at # "db.list"

\* C22: the connectivity flag becomes true only in a step in which a connectivity
\* read succeeds, and is never reset; while it is true no connectivity read is
\* issued; a failed read ends the call with a Config error, does not set the flag,
\* and the call issues no database fetch or create.
C22_ConnectivityGate ==
    [][ /\ isConnectionVerified => isConnectionVerified'
        /\ (~isConnectionVerified /\ isConnectionVerified') =>
                \E c \in Callers : ReadSucceeded(c)
        /\ \A c \in Callers : ReadSucceeded(c) => isConnectionVerified'
        /\ isConnectionVerified =>
                \A c \in Callers : InFlight(c, "db.list")' => InFlight(c, "db.list")
        /\ \A c \in Callers : ReadFailed(c) =>
                /\ perr'[c].type = "Config" /\ perr'[c].stage = StDatabase
                /\ promise'[c] = "rejected"
                /\ isConnectionVerified' = isConnectionVerified
                /\ loc'[c].at = "none" /\ loc'[c].trace = <<StDatabase>>
                /\ rDb' = rDb /\ verifiedDatabases' = verifiedDatabases
      ]_vars

\* one call's connectivity read failed, the flag was set by another's, and a third
\* call fetches the database without having read
C22_Witness ==
    \E c, d \in Callers :
        /\ c # d
        /\ perr[c].type = "Config" /\ perr[c].cause = "Config"
        /\ isConnectionVerified
        /\ InFlight(d, "db.get") /\ "db.list" \notin loc[d].calls

\* ------------------------------------------------------------------- C23
\* C23 as stated: a create-database call that the backend answers with 409,
\* because a concurrent pass has created the database in between, counts as a
\* success: the pass does not fail in the Database stage.  (With no injected
\* error behind, 409 is the only error a create-database call can get, and the
\* Appwrite error of the Database stage is thrown for a failed create only.)
C23_CreateConflictIsSuccess ==
    \A c \in Callers :
        (faults = 0 /\ pc[c] # "idle") =>
            ~(loc[c].failed = StDatabase /\ loc[c].thrown = "Appwrite")

\* ------------------------------------------------------------------- C24
\* the calls with the given label that have been issued and not yet answered
Outstanding(label) == {c \in Callers : InFlight(c, label)}

\* C24 as stated: over any interleaving of concurrent passes, of different keys
\* too, the connectivity read is issued at most once, and the database fetch and
\* the database create at most once for the database id; so no two reads, no two
\* fetches and no two creates are ever outstanding together.
C24_DatabaseCallsOnce ==
    /\ Cardinality(Outstanding("db.list")) <= 1
    /\ Cardinality(Outstanding("db.get")) <= 1
    /\ Cardinality(Outstanding("db.create")) <= 1

\* ------------------------------------------------------------------- C25
\* C25 as stated: the pass issues a create-table call if and only if its fetch of
\* the table reported not-found.
C25_CreateIffNotFound ==
    \A c \in Callers :
        /\ InFlight(c, "tbl.create") => loc[c].got = 404
        /\ (pc[c] = "sync" /\ loc[c].got = 404) => "tbl.create" \in loc[c].calls

\* ------------------------------------------------------------------- C26
\* C26 as stated: the payload of the create-table call carries every field the
\* declaration specifies, with the declared value, also when that value is false.
C26_CreateCarriesDeclared ==
    \A c \in Callers :
        InFlight(c, "tbl.create") =>
            LET local == Schema(key[c])
                payload == createTablePayload(local)
            IN  /\ payload.name = local.name
                /\ payload.permissions = local.permissions
                /\ local.rowSecurity # "undef" => payload.rowSecurity = local.rowSecurity
                /\ local.enabled # "undef" => payload.enabled = local.enabled

\* ------------------------------------------------------------------- C27
\* C27 as stated: one run of the Table stage never issues both an update-table
\* and a create-table call, whatever the backend answers.
C27_UpdateOrCreate ==
    \A c \in Callers : ~({"tbl.update", "tbl.create"} \subseteq loc[c].calls)

\* ------------------------------------------------------------------- C28
\* the declared permissions, as a set
DeclaredPerms(t) ==
    IF Schema(t).permissions.def THEN Range(Schema(t).permissions.val) ELSE {}

NoDuplicate(s) == Cardinality(Range(s)) = Len(s)

\* row security and the enabled flag are remotely what the declaration says
FlagsAsDeclared(t, remote) ==
    /\ (Schema(t).rowSecurity = "true") = remote.rowSecurity
    /\ Schema(t).enabled # "undef" => (Schema(t).enabled = "true") = remote.enabled

FoundCol(t, n) == InitCols(scenario, t)[Schema(t).columns[n].key]

\* the n-th declared column of t is remotely what it was found to be
Untouched(t, n) == rCols[t][Schema(t).columns[n].key] = FoundCol(t, n)

KindConflict(t, n) ==
    /\ FoundCol(t, n).present
    /\ FoundCol(t, n).type # Schema(t).columns[n].type
    /\ Schema(t).columns[n].type # "relationship"

ArrayConflict(t, n) ==
    /\ FoundCol(t, n).present
    /\ FoundCol(t, n).type = Schema(t).columns[n].type
    /\ FoundCol(t, n).array # Schema(t).columns[n].array

Conflicts(t) == {n \in DOMAIN Schema(t).columns : KindConflict(t, n) \/ ArrayConflict(t, n)}

\* C29: a remote column of another kind than declared, unless the declared kind is
\* relationship, or of another array-ness, is fatal: that column and every later
\* declared column stay as they were found, the Columns stage does not return,
\* the Indexes stage does not run, and the pass ends with the Validation error
\* (kind) or the plain Error (array-ness) of the Columns stage.  A relationship
\* column of another kind stays as found and fails nothing.
C29_ConflictStopsColumns ==
    \A c \in Callers : pc[c] # "idle" =>
        LET t == key[c]
            cols == Schema(t).columns
            first == CHOOSE n \in Conflicts(t) : \A m \in Conflicts(t) : n <= m
        IN  /\ \A n \in Conflicts(t) : \A m \in DOMAIN cols : m >= n => Untouched(t, m)
            /\ Conflicts(t) # {} =>
                    /\ StColumns \notin loc[c].done
                    /\ StIndexes \notin Range(loc[c].trace)
                    /\ okRuns[t] = 0
                    /\ pc[c] \in {"settled", "done"} =>
                            /\ loc[c].failed = StColumns
                            /\ loc[c].thrown = IF KindConflict(t, first) THEN "Validation"
                                                ELSE "Error"
            /\ loc[c].failed = StColumns => Conflicts(t) # {}
            /\ \A n \in DOMAIN cols :
                    (/\ FoundCol(t, n).present
                     /\ cols[n].type = "relationship"
                     /\ FoundCol(t, n).type # "relationship") => Untouched(t, n)

\* an array column was found where a scalar is declared: the column before it was
\* created, the pass failed with the plain Error, and no index call was made
C29_Witness ==
    \E c \in Callers :
        LET t == key[c] IN
        /\ pc[c] = "done" /\ Len(Schema(t).columns) = 2
        /\ ArrayConflict(t, 2) /\ ~FoundCol(t, 1).present
        /\ rCols[t][Schema(t).columns[1].key].present
        /\ loc[c].failed = StColumns /\ loc[c].thrown = "Error"
        /\ Untouched(t, 2)

\* ------------------------------------------------------------------- C30
\* the pass of c has dealt with its n-th declared column
PastColumn(c, n) ==
    \/ StColumns \in loc[c].done
    \/ /\ pc[c] = "sync"
       /\ loc[c].at \in {"col.create", "col.updateSize", "col.updateEnum"}
       /\ loc[c].i > n

Max(a, b) == IF a >= b THEN a ELSE b

\* C30: for a string column found remotely with the declared kind and array-ness,
\* an update-size call is in flight only while the declared size exceeds the
\* remote one; the remote size is never below the size found, and once the pass
\* has dealt with the column it is the larger of the declared and the found size:
\* the declared size if that was larger, the found size untouched otherwise.
C30_StringGrowsOnly ==
    \A c \in Callers : pc[c] # "idle" =>
        LET t == key[c] IN
        \A n \in DOMAIN Schema(t).columns :
            LET local == Schema(t).columns[n]
                found == FoundCol(t, n)
                remote == rCols[t][local.key]
            IN  (/\ local.type = "string" /\ found.present
                 /\ found.type = "string" /\ found.array = local.array) =>
                /\ (InFlight(c, "col.updateSize") /\ loc[c].i = n) =>
                        (local.size > remote.size /\ remote = found)
                /\ remote.size >= found.size
                /\ PastColumn(c, n) => remote.size = Max(local.size, found.size)
                /\ (local.size <= found.size) => remote = found

\* a string column found shorter than declared has been grown to the declared size
C30_Witness ==
    \E c \in Callers :
        LET t == key[c] IN
        \E n \in DOMAIN Schema(t).columns :
            /\ pc[c] # "idle"
            /\ Schema(t).columns[n].type = "string"
            /\ FoundCol(t, n).present /\ FoundCol(t, n).type = "string"
            /\ FoundCol(t, n).size < Schema(t).columns[n].size
            /\ PastColumn(c, n)
            /\ rCols[t][Schema(t).columns[n].key].size = Schema(t).columns[n].size

\* ------------------------------------------------------------------- C31
\* the declared elements the column as found lacks, in declared order
Missing(t, n) ==
    SelectSeq(Schema(t).columns[n].elements,
              LAMBDA e : \A m \in DOMAIN FoundCol(t, n).elements : FoundCol(t, n).elements[m] # e)

\* C31: for an enum column found remotely with the declared kind and array-ness,
\* an update-enum call is in flight only while the column is as found and lacks
\* a declared element; once the pass has dealt with the column its elements are
\* the elements found, in their order, followed by the missing declared ones in
\* declared order; a column that lacks nothing stays as found.
C31_EnumUnion ==
    \A c \in Callers : pc[c] # "idle" =>
        LET t == key[c] IN
        \A n \in DOMAIN Schema(t).columns :
            LET local == Schema(t).columns[n]
                found == FoundCol(t, n)
                remote == rCols[t][local.key]
            IN  (/\ local.type = "enum" /\ found.present
                 /\ found.type = "enum" /\ found.array = local.array) =>
                /\ (InFlight(c, "col.updateEnum") /\ loc[c].i = n) =>
                        (Missing(t, n) # <<>> /\ remote = found)
                /\ PastColumn(c, n) => remote.elements = found.elements \o Missing(t, n)
                /\ remote.elements \in {found.elements, found.elements \o Missing(t, n)}
                /\ Missing(t, n) = <<>> => remote = found

\* an enum column found with an element that is not declared, and without a
\* declared one, has got the missing element after those it had
C31_Witness ==
    \E c \in Callers :
        LET t == key[c] IN
        \E n \in DOMAIN Schema(t).columns :
            /\ pc[c] # "idle"
            /\ Schema(t).columns[n].type = "enum" /\ FoundCol(t, n).type = "enum"
            /\ Range(FoundCol(t, n).elements) \ Range(Schema(t).columns[n].elements) # {}
            /\ Missing(t, n) # <<>>
            /\ PastColumn(c, n)
            /\ rCols[t][Schema(t).columns[n].key].elements = FoundCol(t, n).elements \o Missing(t, n)

\* ------------------------------------------------------------------- C32
\* C32 as stated: an index deletion that ends with an error other than not-found,
\* or an index creation that ends with an error other than a conflict, makes the
\* pass fail: the pass is not reported as a success and its key is not verified.
C32_IndexErrorsFail ==
    \A c \in Callers :
        (\E j \in AllIdx : loc[c].del[j] = "error" \/ loc[c].made[j] = "error") =>
            /\ promise[c] # "fulfilled"
            /\ pc[c] \in {"settled", "done"} => loc[c].failed = StIndexes

\* ------------------------------------------------------------------- C33
\* C33: the row call of a mutating operation has been issued only if prepare has
\* returned normally to the caller, the key being verified by then; an operation
\* whose prepare threw has ended with the Config error of a failed pass and has
\* issued no row call.
C33_RowCallAfterPrepare ==
    \A c \in Callers :
        /\ rowCall[c] =>
                /\ pc[c] = "done" /\ result[c] = OkRes
                /\ KeyOf(key[c]) \in verifiedTables
        /\ (pc[c] = "done" /\ ~Failed(c)) => rowCall[c]
        /\ (pc[c] = "done" /\ Failed(c)) =>
                /\ ~rowCall[c]
                /\ result[c].type = "Config"
                /\ failRuns[key[c]] > 0

\* of two operations on one key the first failed without a row call, and the
\* second, having led a pass of its own, issued its row call
C33_Witness ==
    \E c, d \in Callers :
        /\ c # d /\ key[c] = key[d]
        /\ pc[c] = "done" /\ Failed(c) /\ ~rowCall[c]
        /\ pc[d] = "done" /\ rowCall[d] /\ led[d] = 1

\* ------------------------------------------------------------------- C34
MutatingCalls == {"db.create", "tbl.create", "tbl.update", "col.create", "col.updateSize",
                  "col.updateEnum", "idx.create", "idx.delete"}
ReadCalls == {"db.list", "db.get", "tbl.get", "col.list", "idx.list", "idx.wait"}

\* C34 as stated: every mutating call is made inside withRetry and no read is: a
\* mutating call in flight has the default retry budget less the retries already
\* taken, which are no more than the errors injected so far, and a read in
\* flight has no budget.
C34_MutationsInsideRetry ==
    \A c \in Callers :
        /\ (\E m \in MutatingCalls : InFlight(c, m)) =>
                loc[c].retries + faults >= DefaultRetries
        /\ (\E r \in ReadCalls : InFlight(c, r)) => loc[c].retries = 0

\* ------------------------------------------------------------------- C35
\* the calls of prepare made so far
Started == {c \in Callers : pc[c] # "idle"}

\* C35: every call of prepare eventually returns, with a success or an error; no
\* caller leads more than once, and the passes run for the key are never more
\* than the calls made.
C35_AllReturn ==
    /\ [](\A c \in Callers : led[c] <= 1)
    /\ [](okRuns["t1"] + failRuns["t1"] <= Cardinality(Started))
    /\ \A c \in Callers : (pc[c] # "idle") ~> (pc[c] = "done")

\* every caller has led a pass of its own, every pass has failed, and every call
\* has returned with an error
C35_Witness ==
    /\ \A c \in Callers : pc[c] = "done" /\ Failed(c) /\ led[c] = 1
    /\ failRuns["t1"] = NCallers

\* ------------------------------------------------------------------- C36
\* C36 as stated: once the Table stage of a pass has returned, the update it
\* issued having been applied as sent, a reconcile of the same declaration
\* against the remote table would issue no update.
C36_ReconcileConverges ==
    \A c \in Callers :
        (pc[c] # "idle" /\ StTable \in loc[c].done /\ rTable[key[c]].present) =>
            ~needsUpdate(Schema(key[c]), rTable[key[c]])

\* ------------------------------------------------------------------- C37
\* C37 as stated: every create-index call in flight carries the columns in the
\* order the declaration lists them, and the columns array of every declared
\* index stays as the declaration gave it.
C37_DeclaredOrderKept ==
    /\ \A t \in Tables : indexColumns[t] = declaredColumns(t)
    /\ \A c \in Callers :
        (pc[c] # "idle" /\ InFlight(c, "idx.create")) =>
            IndexAt(c).columns = Schema(key[c]).indexes[loc[c].i].columns

\* ------------------------------------------------------------------- C38
\* C38: with no actor deleting structural objects, whenever the key of a table
\* is in verifiedTables the database, the table and every declared column of
\* the table exist remotely.
C38_VerifiedExists ==
    \A t \in Tables :
        KeyOf(t) \in verifiedTables =>
            /\ rDb
            /\ rTable[t].present
            /\ \A k \in DeclaredCols(t) : rCols[t][k].present

\* a key verified by a pass that found nothing and created the table and a column
C38_Witness ==
    /\ scenario = "fresh" /\ KeyOf("t1") \in verifiedTables
    /\ nCreateTable["t1"] > 0 /\ nCreateCol["t1"]["a"] > 0
    /\ rTable["t1"].present /\ \A k \in DeclaredCols("t1") : rCols["t1"][k].present

\* ------------------------------------------------------------------- C39
\* the creation call the pass of c has in flight, and the object it is for
CreateInFlight(c) == pc[c] = "sync" /\ loc[c].at \in {"tbl.create", "col.create", "idx.create"}

ObjectAt(c) ==
    IF loc[c].at = "tbl.create" THEN "tbl"
    ELSE IF loc[c].at = "col.create" THEN ColumnAt(c).key
    ELSE IndexAt(c).key

ObjectPresent(c) ==
    IF loc[c].at = "tbl.create" THEN rTable[key[c]].present
    ELSE IF loc[c].at = "col.create" THEN rCols[key[c]][ColumnAt(c).key].present
    ELSE rIdx[key[c]][IndexAt(c).key].present

\* the step is the conflict answer to the repeated attempt of c
ConflictAnswered(c) ==
    /\ CreateInFlight(c) /\ ObjectAt(c) \in loc[c].lost /\ ObjectPresent(c)
    /\ loc'[c] # loc[c] /\ faults' = faults

\* withRetry attempts the same call once more
RetriedAgain(c) ==
    /\ pc'[c] = "sync" /\ loc'[c].at = loc[c].at /\ loc'[c].i = loc[c].i
    /\ loc'[c].retries = loc[c].retries - 1

\* a declared column after the i-th that the pass cannot reconcile
LaterConflict(c) ==
    \E n \in DOMAIN Schema(key[c]).columns :
        /\ n > loc[c].i
        /\ reconcile(Schema(key[c]).columns[n], loc[c].cols[Schema(key[c]).columns[n].key])
               \in {"validation", "error"}

====
